---- MODULE Spec2Model ----
(***************************************************************************)
(* A model of the HTTP/1.1 server of noelw19/HTTP-Server: the incremental  *)
(* request parser (internal/request), the header container                 *)
(* (internal/headers), the response writer (internal/response), the route  *)
(* table (internal/handler) and the connection session loop                *)
(* (internal/server).                                                      *)
(*                                                                         *)
(* A byte is a one-character string, a byte slice or Go string a sequence  *)
(* of bytes.  Go indices are 0-based; the operators below take and return  *)
(* Go indices and lengths and translate to 1-based sequences inside.       *)
(***************************************************************************)
EXTENDS Integers, Sequences, FiniteSets, TLC

----------------------------------------------------------------------------
(* Byte-slice helpers: the parts of Go's bytes and strings packages that   *)
(* the parser uses.                                                        *)

CR == "\r"
LF == "\n"
SP == " "
\* the back quote byte (0x60), which a TLA+ string cannot hold
BackQuote == "bq"

\* var SEPARATOR = []byte("\r\n") / const CRLF = "\r\n"
SEPARATOR == <<CR, LF>>
CRLF == <<CR, LF>>

UpperChars == <<"A","B","C","D","E","F","G","H","I","J","K","L","M",
                "N","O","P","Q","R","S","T","U","V","W","X","Y","Z">>
LowerChars == <<"a","b","c","d","e","f","g","h","i","j","k","l","m",
                "n","o","p","q","r","s","t","u","v","w","x","y","z">>
DigitChars == <<"0","1","2","3","4","5","6","7","8","9">>

Range(s) == {s[i] : i \in DOMAIN s}

PosIn(ch, s) == CHOOSE i \in DOMAIN s : s[i] = ch

ToLowerCh(ch) == IF ch \in Range(UpperChars) THEN LowerChars[PosIn(ch, UpperChars)] ELSE ch
ToUpperCh(ch) == IF ch \in Range(LowerChars) THEN UpperChars[PosIn(ch, LowerChars)] ELSE ch

\* strings.ToLower / strings.ToUpper
ToLower(s) == [i \in DOMAIN s |-> ToLowerCh(s[i])]
ToUpper(s) == [i \in DOMAIN s |-> ToUpperCh(s[i])]

\* s[n:]
Drop(s, n) == SubSeq(s, n + 1, Len(s))
\* s[:n]
Take(s, n) == SubSeq(s, 1, n)

\* bytes.Index(s, sep) for the two-byte separator: the Go index or -1
IndexCRLF(s) ==
    LET hits == {i \in 1..(Len(s) - 1) : s[i] = CR /\ s[i + 1] = LF}
    IN  IF hits = {} THEN -1
        ELSE (CHOOSE i \in hits : \A j \in hits : i <= j) - 1

\* bytes.IndexByte(s, ch): the Go index or -1
IndexByte(s, ch) ==
    LET hits == {i \in DOMAIN s : s[i] = ch}
    IN  IF hits = {} THEN -1
        ELSE (CHOOSE i \in hits : \A j \in hits : i <= j) - 1

\* bytes.Split(s, sep) for a one-byte separator: always at least one part
RECURSIVE Split(_, _)
Split(s, ch) ==
    LET i == IndexByte(s, ch)
    IN  IF i = -1 THEN <<s>>
        ELSE <<Take(s, i)>> \o Split(Drop(s, i + 1), ch)

\* strings.Trim(s, " ")
RECURSIVE TrimLeft(_)
TrimLeft(s) == IF s # <<>> /\ s[1] = SP THEN TrimLeft(Tail(s)) ELSE s
RECURSIVE TrimRight(_)
TrimRight(s) == IF s # <<>> /\ s[Len(s)] = SP THEN TrimRight(Take(s, Len(s) - 1)) ELSE s
Trim(s) == TrimRight(TrimLeft(s))

DigitVal(ch) == PosIn(ch, DigitChars) - 1

RECURSIVE DigitsVal(_)
DigitsVal(s) == IF s = <<>> THEN 0
                ELSE 10 * DigitsVal(Take(s, Len(s) - 1)) + DigitVal(s[Len(s)])

\* strconv.Atoi: an optional sign and at least one decimal digit
Atoi(s) ==
    LET signed == s # <<>> /\ s[1] \in {"+", "-"}
        digits == IF signed THEN Tail(s) ELSE s
    IN  IF digits = <<>> \/ \E i \in DOMAIN digits : digits[i] \notin Range(DigitChars)
        THEN [val |-> 0, ok |-> FALSE]
        ELSE [val |-> IF signed /\ s[1] = "-" THEN 0 - DigitsVal(digits) ELSE DigitsVal(digits),
              ok |-> TRUE]

\* the decimal digits of n >= 0 (fmt.Sprintf("%d", n))
RECURSIVE Itoa(_)
Itoa(n) == IF n < 10 THEN <<DigitChars[n + 1]>>
           ELSE Itoa(n \div 10) \o <<DigitChars[(n % 10) + 1]>>

----------------------------------------------------------------------------
(* internal/headers: Headers is a map from string to string, modelled as a *)
(* function whose domain is the set of stored keys.                        *)

NewHeaders == << >>

\* the error values of the request path; "nil" is no error
ErrInvalidHeader == "invalid header in request"
ErrBadStartLine == "bad start line"
ErrBodyMismatch == "content length and body length mismatch"

\* numberRegexp: letters, digits and ! # $ % & ' * + - . ^ _ | ~ and the back
\* quote; its "+-." is a range, so the comma is allowed too
TokenChars == Range(UpperChars) \cup Range(LowerChars) \cup Range(DigitChars)
              \cup {"!", "#", "$", "%", "&", "'", "*", "+", ",", "-", ".", "^", "_", "|", "~", BackQuote}

numberRegexpMatch(s) == s # <<>> /\ \A i \in DOMAIN s : s[i] \in TokenChars

MapPut(h, k, v) == [x \in (DOMAIN h) \cup {k} |-> IF x = k THEN v ELSE h[x]]

Get(h, key) == IF ToLower(key) \in DOMAIN h THEN h[ToLower(key)] ELSE <<>>

Set(h, key, value) ==
    IF Get(h, key) = <<>>
    THEN MapPut(h, ToLower(key), value)
    ELSE MapPut(h, ToLower(key), Get(h, key) \o <<",", SP>> \o value)

\* Replace that stores the key as the caller wrote it
ReplaceExact(h, key, value) == MapPut(h, key, value)

\* Headers.Replace
Replace(h, key, value) == MapPut(h, ToLower(key), value)

Delete(h, key) == [x \in (DOMAIN h) \ {ToLower(key)} |-> h[x]]

ContentLengthKey == <<"c","o","n","t","e","n","t","-","l","e","n","g","t","h">>
TransferEncodingKey == <<"t","r","a","n","s","f","e","r","-","e","n","c","o","d","i","n","g">>
ConnectionKey == <<"c","o","n","n","e","c","t","i","o","n">>
ChunkedValue == <<"c","h","u","n","k","e","d">>
CloseValue == <<"c","l","o","s","e">>

\* HasContentLength that does not look at transfer-encoding
HasContentLengthOnly(h) ==
    LET a == Atoi(Get(h, ContentLengthKey))
    IN  IF ~a.ok THEN [n |-> 0, ok |-> FALSE] ELSE [n |-> a.val, ok |-> TRUE]

\* Headers.HasContentLength returns (n, ok)
HasContentLength(h) ==
    LET cl == Get(h, ContentLengthKey)
        te == Get(h, TransferEncodingKey)
        a  == Atoi(cl)
    IN  IF ~a.ok
        THEN IF te = ChunkedValue THEN [n |-> 0, ok |-> TRUE] ELSE [n |-> 0, ok |-> FALSE]
        ELSE [n |-> a.val, ok |-> TRUE]

\* Headers.Parse: one header line, or the blank line, per call
HeadersParse(h, data) ==
    IF IndexCRLF(data) = -1
    THEN [h |-> h, n |-> 0, done |-> FALSE, err |-> "nil"]
    ELSE IF Take(data, Len(CRLF)) = CRLF
    THEN [h |-> h, n |-> Len(CRLF), done |-> TRUE, err |-> "nil"]
    ELSE
      LET header == Take(data, IndexCRLF(data))
          read   == Len(header) + Len(CRLF)
          colon  == IndexByte(header, ":")
          before == Take(header, colon)
          after  == Drop(header, colon + 1)
          key    == ToLower(Trim(before))
          value  == Trim(after)
      IN  IF colon = -1
          THEN [h |-> h, n |-> read, done |-> FALSE, err |-> ErrInvalidHeader]
          ELSE IF ~numberRegexpMatch(before)
          THEN [h |-> h, n |-> 0, done |-> FALSE, err |-> ErrInvalidHeader]
          ELSE IF before[Len(before)] = SP
          THEN [h |-> h, n |-> 0, done |-> FALSE, err |-> ErrInvalidHeader]
          ELSE IF key \in DOMAIN h
          THEN [h |-> Set(h, key, Get(h, key) \o <<",", SP>> \o value),
                n |-> read, done |-> FALSE, err |-> "nil"]
          ELSE [h |-> Set(h, key, value), n |-> read, done |-> FALSE, err |-> "nil"]

----------------------------------------------------------------------------
(* internal/request: the incremental request parser.                       *)

parserInit == "initialised"
parserDone == "done"
parserHeaders == "parsingHeaders"
parserBody == "parsingBody"

\* the zero RequestLine of a Request that has not parsed its first line
NoRequestLine == [HttpVersion |-> <<>>, RequestTarget |-> <<>>, Method |-> <<>>]

newRequest == [RequestLine |-> NoRequestLine, state |-> parserInit,
               Headers |-> NewHeaders, Body |-> <<>>]

HTTPName == <<"H","T","T","P">>
Version11 == <<"1",".","1">>

\* parseRequestLine that only asks for at least three parts
parseRequestLineLoose(req) ==
    LET idx == IndexCRLF(req)
        startLine == Take(req, idx)
        read == idx + Len(SEPARATOR)
        parts == Split(startLine, SP)
    IN  IF idx = -1 THEN [rl |-> NoRequestLine, n |-> 0, err |-> "nil"]
        ELSE IF Len(parts) < 3
        THEN [rl |-> NoRequestLine, n |-> Len(startLine), err |-> ErrBadStartLine]
        ELSE [rl |-> [Method |-> parts[1], RequestTarget |-> parts[2],
                      HttpVersion |-> Split(parts[3], "/")[Len(Split(parts[3], "/"))]],
              n |-> read, err |-> "nil"]

\* parseRequestLine returns (rl, n, err); err = "panic" stands for the run-time
\* panic of httpParts[1] (index out of range) when the third token has no "/".
\* The && of line 68 evaluates left to right and stops at the first false operand.
parseRequestLine(req) ==
    LET idx == IndexCRLF(req)
        startLine == Take(req, idx)
        read == idx + Len(SEPARATOR)
        parts == Split(startLine, SP)
        method == parts[1]
        target == parts[2]
        httpParts == Split(parts[3], "/")
        capMethod == ToUpper(method)
        none == NoRequestLine
    IN  IF idx = -1 THEN [rl |-> none, n |-> 0, err |-> "nil"]
        ELSE IF Len(parts) # 3 THEN [rl |-> none, n |-> Len(startLine), err |-> ErrBadStartLine]
        ELSE IF method # capMethod /\ httpParts[1] # HTTPName /\ Len(httpParts) < 2
        THEN [rl |-> none, n |-> 0, err |-> "panic"]
        ELSE IF method # capMethod /\ httpParts[1] # HTTPName /\ httpParts[2] # Version11
        THEN [rl |-> none, n |-> read, err |-> ErrBadStartLine]
        ELSE IF Len(httpParts) < 2
        THEN [rl |-> none, n |-> 0, err |-> "panic"]
        ELSE [rl |-> [Method |-> method, RequestTarget |-> target, HttpVersion |-> httpParts[2]],
              n |-> read, err |-> "nil"]

\* parseBody with the length test weakened to "no more than declared": a body
\* that is still short is taken as it is
parseBodyLax(r, data) ==
    LET cl == Get(r.Headers, ContentLengthKey)
        r1 == IF cl = <<>> THEN [r EXCEPT !.state = parserDone] ELSE r
        hcl == HasContentLength(r.Headers)
    IN  IF ~hcl.ok THEN [r |-> r1, n |-> 0, err |-> "nil"]
        ELSE IF hcl.n < Len(data) THEN [r |-> r1, n |-> 0, err |-> ErrBodyMismatch]
        ELSE [r |-> [r1 EXCEPT !.Body = data], n |-> Len(data), err |-> "nil"]

\* Request.parseBody returns (n, err) and may set r.state and r.Body
parseBody(r, data) ==
    LET cl == Get(r.Headers, ContentLengthKey)
        r1 == IF cl = <<>> THEN [r EXCEPT !.state = parserDone] ELSE r
        hcl == HasContentLength(r.Headers)
    IN  IF ~hcl.ok THEN [r |-> r1, n |-> 0, err |-> "nil"]
        ELSE IF hcl.n # Len(data) THEN [r |-> r1, n |-> 0, err |-> ErrBodyMismatch]
        ELSE [r |-> [r1 EXCEPT !.Body = data], n |-> Len(data), err |-> "nil"]

\* the loop of Request.parse from the state r.state with `read` bytes consumed
RECURSIVE parseFrom(_, _, _)
parseFrom(r, data, read) ==
    CASE r.state = parserInit ->
           LET res == parseRequestLine(Drop(data, read))
           IN  IF res.err # "nil" THEN [r |-> r, n |-> 0, err |-> res.err]
               ELSE IF res.n = 0 THEN [r |-> r, n |-> read, err |-> "nil"]
               ELSE parseFrom([r EXCEPT !.RequestLine = res.rl, !.state = parserHeaders],
                              data, read + res.n)
      [] r.state = parserHeaders ->
           LET res == HeadersParse(r.Headers, Drop(data, read))
           IN  IF res.err # "nil" THEN [r |-> r, n |-> read, err |-> res.err]
               ELSE IF res.n = 0 THEN [r |-> r, n |-> read, err |-> "nil"]
               ELSE parseFrom([r EXCEPT !.Headers = res.h,
                                        !.state = IF res.done THEN parserBody ELSE parserHeaders],
                              data, read + res.n)
      [] r.state = parserBody ->
           LET res == parseBody(r, Drop(data, read))
           IN  IF res.err # "nil" THEN [r |-> res.r, n |-> read, err |-> res.err]
               ELSE IF res.n = 0 THEN [r |-> res.r, n |-> read, err |-> "nil"]
               ELSE parseFrom([res.r EXCEPT !.state = parserDone], data, read)
      [] OTHER -> [r |-> r, n |-> read, err |-> "nil"]

\* parse that starts again at the request line on every call
parseFromStart(r, data) == parseFrom([r EXCEPT !.state = parserInit], data, 0)

\* Request.parse(data) returns (read, err) and the Request it has mutated
parse(r, data) == parseFrom(r, data, 0)

done(r) == r.state = parserDone

\* bufferSize := 1024
bufferSize == 1024

\* One iteration of the loop of RequestFromReader.  st holds the locals
\* (buffer[:idx] and request); reader.Read returned the bytes `got` and the
\* error rerr.  ret is "loop" when the loop goes on, "ok" when the function
\* returns (request, nil), "panic" when parse panicked, and otherwise the error
\* of the return (nil, err).
readStep(st, got, rerr) ==
    LET req1 == IF rerr = "EOF" THEN [st.request EXCEPT !.state = parserDone] ELSE st.request
        buf1 == st.buffer \o got
        p    == parse(req1, buf1)
    IN  IF rerr \notin {"nil", "EOF"}
        THEN [buffer |-> st.buffer, request |-> st.request, ret |-> rerr]
        ELSE IF p.err # "nil"
        THEN [buffer |-> buf1, request |-> p.r, ret |-> p.err]
        ELSE [buffer |-> Drop(buf1, p.n), request |-> p.r,
              ret |-> IF done(p.r) THEN "ok" ELSE "loop"]

\* the locals of RequestFromReader before its loop
readerStart == [buffer |-> <<>>, request |-> newRequest, ret |-> "loop"]

\* RequestFromReader on a reader that returns the given chunks, one per Read,
\* and then (0, io.EOF)
RECURSIVE RequestFromReader(_, _)
RequestFromReader(st, chunks) ==
    IF st.ret # "loop" THEN st
    ELSE IF chunks = <<>> THEN RequestFromReader(readStep(st, <<>>, "EOF"), <<>>)
    ELSE RequestFromReader(readStep(st, Head(chunks), "nil"), Tail(chunks))

\* what the caller of RequestFromReader gets: the error, and the Request when
\* there is none
Outcome(st) == IF st.ret = "ok" THEN [err |-> "nil", request |-> st.request]
               ELSE [err |-> st.ret, request |-> newRequest]

\* Request.Path
Path(r) == Split(r.RequestLine.RequestTarget, "?")[1]

----------------------------------------------------------------------------
(* internal/response: the response writer.  The sink receives one segment  *)
(* per Write call of a complete unit: the status line, the header block    *)
(* (Go ranges over the map in no fixed order, so the block is kept as the  *)
(* map written plus whether the blank line followed), and the body.        *)

writerStateNotStarted == 1
writerStateStatusLine == 2
writerStateHeaders == 3
writerStateBody == 4

NewResponseWriter == [writerState |-> writerStateNotStarted, sink |-> <<>>]

ContentTypeKey == <<"c","o","n","t","e","n","t","-","t","y","p","e">>
TextPlain == <<"t","e","x","t","/","p","l","a","i","n">>
TextHtml == <<"t","e","x","t","/","h","t","m","l">>

\* GetDefaultHeaders(contentLen)
GetDefaultHeaders(contentLen) ==
    Set(Set(Set(NewHeaders, ContentLengthKey, Itoa(contentLen)),
            <<"C","o","n","n","e","c","t","i","o","n">>, CloseValue),
        <<"C","o","n","t","e","n","t","-","T","y","p","e">>, TextPlain)

\* Writer.WriteStatusLine: the writer after the call; nothing changes on a
\* state error
WriteStatusLine(w, statusCode) ==
    IF w.writerState # writerStateNotStarted THEN w
    ELSE [writerState |-> writerStateStatusLine,
          sink |-> Append(w.sink, [seg |-> "status", code |-> statusCode])]

\* Writer.WriteHeaders
WriteHeaders(w, headers) ==
    IF w.writerState # writerStateStatusLine THEN w
    ELSE LET hasBody == HasContentLength(headers).ok
             hs == IF DOMAIN headers = {} THEN GetDefaultHeaders(0) ELSE headers
         IN  [writerState |-> writerStateHeaders,
              sink |-> Append(w.sink, [seg |-> "headers", h |-> hs, blank |-> hasBody])]

\* WriteBody without the call of isCorrectState
WriteBodyUnchecked(w, p) ==
    [writerState |-> writerStateBody,
     sink |-> Append(w.sink, [seg |-> "body", p |-> p \o CRLF])]

\* Writer.WriteBody
WriteBody(w, p) ==
    IF w.writerState # writerStateHeaders THEN w
    ELSE [writerState |-> writerStateBody,
          sink |-> Append(w.sink, [seg |-> "body", p |-> p \o CRLF])]

\* isHTML(body)
HtmlOpen == <<"<","h","t","m","l",">">>
HtmlClose == <<"<","/","h","t","m","l",">">>
Contains(s, sub) == \E i \in 0..(Len(s) - Len(sub)) : SubSeq(s, i + 1, i + Len(sub)) = sub
isHTML(body) == Contains(body, HtmlOpen) /\ Contains(body, HtmlClose)

\* Writer.Respond
Respond(w, status, h, body) ==
    IF w.writerState # writerStateNotStarted THEN w
    ELSE LET w1 == WriteStatusLine(w, status)
             h1 == Replace(h, ContentLengthKey, Itoa(Len(body)))
             h2 == IF isHTML(body) THEN Replace(h1, ContentTypeKey, TextHtml) ELSE h1
         IN  WriteBody(WriteHeaders(w1, h2), body)

\* Writer.isCorrectState: the error of a call made in the wrong state
ErrWrongOrder == "you have executed the writers in the wrong order"
isCorrectState(w, expected) == IF expected = w.writerState THEN "nil" ELSE ErrWrongOrder

\* strconv.FormatInt(n, 16)
HexDigits == <<"0","1","2","3","4","5","6","7","8","9","a","b","c","d","e","f">>
RECURSIVE FormatHex(_)
FormatHex(n) ==
    IF n < 16 THEN <<HexDigits[n + 1]>>
    ELSE FormatHex(n \div 16) \o <<HexDigits[(n % 16) + 1]>>

\* Writer.WriteChunkedBody: the length line, then the bytes and CRLF; the
\* writer state is neither tested nor changed
WriteChunkedBody(w, p) ==
    [w EXCEPT !.sink = @ \o <<[seg |-> "chunk-size", p |-> FormatHex(Len(p)) \o CRLF],
                               [seg |-> "chunk", p |-> p \o CRLF]>>]

\* Writer.WriteTrailers: one line per trailer, in the order of the map
WriteTrailers(w, trailers) ==
    [w EXCEPT !.sink = Append(@, [seg |-> "trailers", h |-> trailers, blank |-> FALSE])]

\* Writer.WriteChunkedBodyDone: the last chunk, the trailers when there are
\* any, the closing CRLF
WriteChunkedBodyDone(w, trailers) ==
    LET w1 == [w EXCEPT !.sink = Append(@, [seg |-> "chunk-size", p |-> <<"0">> \o CRLF])]
        w2 == IF DOMAIN trailers # {} THEN WriteTrailers(w1, trailers) ELSE w1
    IN  [w2 EXCEPT !.sink = Append(@, [seg |-> "chunk", p |-> CRLF])]

\* GetStatusReason(statusCode): the reason phrases of the status codes used
GetStatusReason(statusCode) ==
    CASE statusCode = 200 -> <<"O","K">>
      [] statusCode = 400 -> <<"B","a","d",SP,"R","e","q","u","e","s","t">>
      [] statusCode = 404 -> <<"N","o","t",SP,"F","o","u","n","d">>
      [] statusCode = 405 -> <<"M","e","t","h","o","d",SP,"N","o","t",SP,
                               "A","l","l","o","w","e","d">>
      [] statusCode = 500 -> <<"I","n","t","e","r","n","a","l",SP,"S","e","r","v","e","r",SP,
                               "E","r","r","o","r">>
      [] OTHER -> <<>>

\* fmt.Appendf(nil, "%s %d %s\r\n", version, statusCode, reason)
StatusLineBytes(statusCode) ==
    <<"H","T","T","P","/","1",".","1">> \o <<SP>> \o Itoa(statusCode) \o <<SP>>
    \o GetStatusReason(statusCode) \o CRLF

\* fmt.Sprintf("%s:%s\r\n", key, headers.Get(key))
HeaderLineBytes(h, key) == key \o <<":">> \o Get(h, key) \o CRLF

\* the orders in which `for key := range headers` can visit the keys
KeyOrders(h) ==
    {o \in [1..Cardinality(DOMAIN h) -> DOMAIN h] :
        \A i \in DOMAIN o : \A j \in DOMAIN o : i # j => o[i] # o[j]}

RECURSIVE HeaderLinesBytes(_, _)
HeaderLinesBytes(h, order) ==
    IF order = <<>> THEN <<>>
    ELSE HeaderLineBytes(h, Head(order)) \o HeaderLinesBytes(h, Tail(order))

\* the bytes one segment of the sink can be: the Write calls of the operation
\* that made it, one after another
SegmentBytes(seg) ==
    CASE seg.seg = "status" -> {StatusLineBytes(seg.code)}
      [] seg.seg \in {"headers", "trailers"} ->
           {HeaderLinesBytes(seg.h, o) \o (IF seg.blank THEN CRLF ELSE <<>>) : o \in KeyOrders(seg.h)}
      [] OTHER -> {seg.p}

\* the byte streams the sink can hold after the segments
RECURSIVE SinkBytes(_)
SinkBytes(sink) ==
    IF sink = <<>> THEN {<<>>}
    ELSE {a \o b : a \in SegmentBytes(Head(sink)), b \in SinkBytes(Tail(sink))}

----------------------------------------------------------------------------
(* internal/handler: the route table.  A handler function is named by a    *)
(* string; NoFunc is the nil function pointer.                             *)

NoFunc == "nil"

\* Handlers.Add that lets the methods already registered follow the new function
AddShared(h, route, hf) ==
    IF route \in DOMAIN h
    THEN [h EXCEPT ![route].HandleFunc = hf,
                   ![route].MethodFuncs = [m \in DOMAIN @ |-> hf]]
    ELSE MapPut(h, route, [route |-> route, HandleFunc |-> hf, MethodFuncs |-> << >>,
                           middlewares |-> << >>])

\* Handlers.Add(route, hf): a second Add on a route only points HandleFunc
\* at the new function; what MethodFuncs holds stays as it is
Add(h, route, hf) ==
    IF route \in DOMAIN h
    THEN [h EXCEPT ![route].HandleFunc = hf]
    ELSE MapPut(h, route, [route |-> route, HandleFunc |-> hf, MethodFuncs |-> << >>,
                           middlewares |-> << >>])

\* Handler.GET / POST / PATCH / DELETE on the handler of `route`
AllowMethod(h, route, method) ==
    [h EXCEPT ![route].MethodFuncs = MapPut(h[route].MethodFuncs, method, h[route].HandleFunc)]

\* Handler.Use on the handler of `route`
Use(h, route, m) == [h EXCEPT ![route].middlewares = Append(@, m)]

MethodGET == <<"G","E","T">>
MethodPOST == <<"P","O","S","T">>
MethodDELETE == <<"D","E","L","E","T","E">>

ErrNoRouteMatch == "No route match found"
ErrEmptyRoute == "Empty route when trying to match"

\* strings.Trim(s, "/")
RECURSIVE TrimCut(_, _)
TrimCut(s, ch) ==
    IF s # <<>> /\ s[1] = ch THEN TrimCut(Tail(s), ch)
    ELSE IF s # <<>> /\ s[Len(s)] = ch THEN TrimCut(Take(s, Len(s) - 1), ch)
    ELSE s

\* strings.HasPrefix(part, "{") && strings.HasSuffix(part, "}")
IsParamPart(part) == part # <<>> /\ part[1] = "{" /\ part[Len(part)] = "}"

\* strings.TrimSuffix(strings.TrimPrefix(part, "{"), "}")
ParamName(part) == SubSeq(part, 2, Len(part) - 1)

\* the loop of matchDynamicRoute from segment i on
RECURSIVE matchParts(_, _, _, _)
matchParts(patternParts, actualParts, i, vars) ==
    IF i > Len(patternParts) THEN [vars |-> vars, matched |-> TRUE]
    ELSE IF IsParamPart(patternParts[i])
    THEN IF ParamName(patternParts[i]) = <<>> THEN [vars |-> vars, matched |-> FALSE]
         ELSE matchParts(patternParts, actualParts, i + 1,
                         MapPut(vars, ParamName(patternParts[i]), actualParts[i]))
    ELSE IF patternParts[i] # actualParts[i] THEN [vars |-> vars, matched |-> FALSE]
    ELSE matchParts(patternParts, actualParts, i + 1, vars)

\* matchDynamicRoute without the strings.Trim of the actual route
matchDynamicRouteNoTrim(pattern, actualRoute) ==
    LET patternParts == Split(TrimCut(pattern, "/"), "/")
        actualParts == Split(actualRoute, "/")
    IN  IF Len(patternParts) # Len(actualParts) THEN [vars |-> << >>, matched |-> FALSE]
        ELSE matchParts(patternParts, actualParts, 1, << >>)

\* matchDynamicRoute(pattern, actualRoute) returns (vars, matched)
matchDynamicRoute(pattern, actualRoute) ==
    LET patternParts == Split(TrimCut(pattern, "/"), "/")
        actualParts == Split(TrimCut(actualRoute, "/"), "/")
    IN  IF Len(patternParts) # Len(actualParts) THEN [vars |-> << >>, matched |-> FALSE]
        ELSE matchParts(patternParts, actualParts, 1, << >>)

\* what one Handler of the table gives for a method: the function registered
\* for the method, else HandleFunc when it is not nil
FuncFor(handler, method) ==
    IF method \in DOMAIN handler.MethodFuncs THEN handler.MethodFuncs[method]
    ELSE handler.HandleFunc

\* Handlers.MatchWithVars: the results the call can return.  The exact match
\* comes first; the patterns are tried in the order of the map, which Go
\* does not fix, so each pattern that matches and has a function is a
\* possible result.  Server.executeMiddlewares reads the matched Handler and
\* its function from the result: `route` names the Handler.
MatchWithVars(h, route, method) ==
    LET static == route \in DOMAIN h /\ FuncFor(h[route], method) # NoFunc
        dynamic == {p \in DOMAIN h :
                       /\ Contains(p, <<"{">>)
                       /\ matchDynamicRoute(p, route).matched
                       /\ FuncFor(h[p], method) # NoFunc}
    IN  IF route = <<>>
        THEN {[err |-> ErrEmptyRoute, Handler |-> NoFunc, Vars |-> << >>, route |-> <<>>]}
        ELSE IF static
        THEN {[err |-> "nil", Handler |-> FuncFor(h[route], method), Vars |-> << >>,
               route |-> route]}
        ELSE IF dynamic = {}
        THEN {[err |-> ErrNoRouteMatch, Handler |-> NoFunc, Vars |-> << >>, route |-> <<>>]}
        ELSE {[err |-> "nil", Handler |-> FuncFor(h[p], method),
               Vars |-> matchDynamicRoute(p, route).vars, route |-> p] : p \in dynamic}

----------------------------------------------------------------------------
(* internal/server and cmd/httpserver: the configured server.              *)

RootRoute == <<"/">>

\* server.AddHandler(route, wakandaHandler).GET(), as cmd/httpserver/main.go
\* registers its first route; the path and the body are shortened to "/" and
\* "ok"
ServerHandlers == AllowMethod(Add(<< >>, RootRoute, "wakandaHandler"), RootRoute, MethodGET)

HandlerBody == <<"o","k">>
Body404 == HtmlOpen \o <<"4","0","4">> \o HtmlClose
Body405 == HtmlOpen \o <<"4","0","5">> \o HtmlClose

\* wakandaHandler: status line, default headers, body
wakandaHandler(w, r) ==
    WriteBody(WriteHeaders(WriteStatusLine(w, 200), GetDefaultHeaders(Len(HandlerBody))),
              HandlerBody)

\* wakandaPOSTHandler: Respond with its own body
BodyPOST == <<"i","t","s">>
wakandaPOSTHandler(w, r) == Respond(w, 200, GetDefaultHeaders(Len(BodyPOST)), BodyPOST)

\* wakandaIDHandler: the body is made of req.Vars["id"] and req.Vars["lala"]
VarOf(vars, name) == IF name \in DOMAIN vars THEN vars[name] ELSE <<>>
BodyID(vars) == VarOf(vars, <<"i","d">>) \o <<",">> \o VarOf(vars, <<"l","a","l","a">>)
wakandaIDHandler(w, r, vars) ==
    Respond(w, 200, GetDefaultHeaders(Len(BodyID(vars))), BodyID(vars))

\* queryHandler without query parameters
BodyQuery == <<"n","o","n","e">>
queryHandler(w, r) == Respond(w, 200, GetDefaultHeaders(Len(BodyQuery)), BodyQuery)

\* defaultNotFoundHandler
defaultNotFoundHandler(w, r) == Respond(w, 404, NewHeaders, Body404)

\* a not-found handler of the application, for OverrideNotFoundHandler
BodyCustom == <<"g","o","n","e">>
customNotFound(w, r) == Respond(w, 404, GetDefaultHeaders(Len(BodyCustom)), BodyCustom)

\* the call of a handler function: the writer when it returns; req.Vars holds
\* the variables of the match (maps.Copy, line 162)
CallHandler(hf, w, r, vars) ==
    CASE hf = "wakandaHandler" -> wakandaHandler(w, r)
      [] hf = "wakandaPOSTHandler" -> wakandaPOSTHandler(w, r)
      [] hf = "wakandaIDHandler" -> wakandaIDHandler(w, r, vars)
      [] hf = "queryHandler" -> queryHandler(w, r)
      [] hf = "defaultNotFoundHandler" -> defaultNotFoundHandler(w, r)
      [] hf = "customNotFound" -> customNotFound(w, r)
      [] OTHER -> w

\* slices.Reverse
Reverse(seq) == [i \in 1..Len(seq) |-> seq[Len(seq) + 1 - i]]

\* the loop `for _, m := range middlewares { finalHandler = m(finalHandler) }`:
\* a chain is the list of the middlewares that wrap the function, the
\* outermost first, and the function last
RECURSIVE WrapAll(_, _)
WrapAll(middlewares, chain) ==
    IF middlewares = <<>> THEN chain
    ELSE WrapAll(Tail(middlewares), <<Head(middlewares)>> \o chain)

\* Handler.ExecuteMiddlewares without slices.Reverse
ExecuteMiddlewaresInOrder(middlewares, final) == WrapAll(middlewares, <<final>>)

\* Handler.ExecuteMiddlewares(w, r, final): the route's middlewares around
\* the function
ExecuteMiddlewares(middlewares, final) == WrapAll(Reverse(middlewares), <<final>>)

\* the call of a chain: each middleware does its part before next(w, req),
\* calls next, and does its part after; the events in the order they happen
RECURSIVE CallChain(_, _, _, _)
CallChain(chain, w, r, vars) ==
    IF Len(chain) = 1
    THEN [w |-> CallHandler(chain[1], w, r, vars),
          trace |-> <<[ev |-> "handler", who |-> chain[1], vars |-> vars]>>]
    ELSE LET inner == CallChain(Tail(chain), w, r, vars)
         IN  [w |-> inner.w,
              trace |-> <<[ev |-> "before", who |-> chain[1], vars |-> << >>]>>
                        \o inner.trace
                        \o <<[ev |-> "after", who |-> chain[1], vars |-> << >>]>>]

\* Server.executeMiddlewares: the global middlewares around the chain of the
\* matched Handler, and the call
executeMiddlewares(srv, w, r, next) ==
    LET finalHandler == ExecuteMiddlewares(srv.handlers[next.route].middlewares, next.Handler)
    IN  CallChain(WrapAll(Reverse(srv.middleware), finalHandler), w, r, next.Vars)

\* the handler s.notFound holds
NotFoundDefault(srv) == "defaultNotFoundHandler"
NotFoundHandler(srv) == srv.notFound

\* the routing step of Server.handle (lines 156-172) on a server `srv`: what
\* the matched handler chain, the 405 response or the not-found handler has
\* written and which functions ran, for each result the match can give
RouteRequest(srv, r) ==
    {IF m.err = "nil" THEN executeMiddlewares(srv, NewResponseWriter, r, m)
     ELSE IF m.err = "Method not allowed"
     THEN [w |-> Respond(NewResponseWriter, 405, GetDefaultHeaders(Len(Body405)), Body405),
           trace |-> << >>]
     ELSE CallChain(<<NotFoundHandler(srv)>>, NewResponseWriter, r, << >>)
       : m \in MatchWithVars(srv.handlers, Path(r), r.RequestLine.Method)}

\* Serve(port): no route, no middleware, the default not-found handler
Serve == [handlers |-> << >>, middleware |-> << >>, notFound |-> "defaultNotFoundHandler"]

\* Server.Use
ServerUse(srv, m) == [srv EXCEPT !.middleware = Append(@, m)]

\* Server.OverrideNotFoundHandler
OverrideNotFoundHandler(srv, hf) == [srv EXCEPT !.notFound = hf]

\* the three logging middlewares of main.go, in the order of their Use
GlobalLogs == <<"log 1", "log 2", "log 3">>

\* the server the sessions run on
ConfiguredServer ==
    [handlers |-> ServerHandlers, middleware |-> GlobalLogs,
     notFound |-> "defaultNotFoundHandler"]

\* the comparison without strings.ToLower
shouldCloseExact(r) == Get(r.Headers, ConnectionKey) = CloseValue

\* connectionHeader == "close" after strings.ToLower (lines 153-154)
shouldClose(r) == ToLower(Get(r.Headers, ConnectionKey)) = CloseValue

\* the empty-request guard of Server.handle (line 138)
EmptyRequest(r) == r.RequestLine.Method = <<>> \/ r.RequestLine.RequestTarget = <<>>

----------------------------------------------------------------------------
(* The clients: the byte streams a client may send on a connection.        *)

LineGetRoot == <<"G","E","T",SP,"/",SP,"H","T","T","P","/","1",".","1">> \o CRLF
LinePostRoot == <<"P","O","S","T",SP,"/",SP,"H","T","T","P","/","1",".","1">> \o CRLF
LineGetX == <<"G","E","T",SP,"/","x",SP,"H","T","T","P","/","1",".","1">> \o CRLF
HdrKeepAlive == <<"C","o","n","n","e","c","t","i","o","n",":",SP,
                  "k","e","e","p","-","a","l","i","v","e">> \o CRLF
HdrClose == ConnectionKey \o <<":">> \o CloseValue \o CRLF
HdrCloseMixed == <<"C","o","n","n","e","c","t","i","o","n",":",SP,"C","L","O","S","E">> \o CRLF
HdrLength2 == ContentLengthKey \o <<":","2">> \o CRLF

\* GET / with no header
ReqPlain == LineGetRoot \o CRLF
\* GET / with Connection: keep-alive
ReqKeepAlive == LineGetRoot \o HdrKeepAlive \o CRLF
\* GET / with connection:close, in lower and in mixed case
ReqClose == LineGetRoot \o HdrClose \o CRLF
ReqCloseMixed == LineGetRoot \o HdrCloseMixed \o CRLF
\* POST / with a two-byte body
ReqBody == LinePostRoot \o HdrLength2 \o CRLF \o <<"A","B">>
\* GET /x, a path with no route
ReqNoRoute == LineGetX \o CRLF
\* a request line of one token
ReqBadLine == <<"B","A","D">> \o CRLF
\* a request line whose third token has no "/"
ReqNoSlash == <<"G","E","T",SP,"/",SP,"H","T","T","P">> \o CRLF
\* a header line without a colon
ReqBadHeader == LineGetRoot \o <<"b","a","d">> \o CRLF \o CRLF
\* a request line of four tokens
ReqFourParts == <<"G","E","T",SP,"/",SP,"H","T","T","P","/","1",".","1",SP,"x">> \o CRLF \o CRLF

RequestPool == {ReqPlain, ReqKeepAlive, ReqClose, ReqCloseMixed, ReqBody, ReqNoRoute,
                ReqBadLine, ReqNoSlash, ReqBadHeader, ReqFourParts}

\* a client sends at most MaxReqs requests on a connection
MaxReqs == 2

Scripts == UNION {[1..k -> RequestPool] : k \in 1..MaxReqs}

\* the clients of the two-connection runs
IsoScripts == {<<ReqPlain>>, <<ReqBadLine>>, <<ReqNoSlash>>}

RECURSIVE Flat(_)
Flat(ss) == IF ss = <<>> THEN <<>> ELSE Head(ss) \o Flat(Tail(ss))

Conns == {1, 2}

----------------------------------------------------------------------------
(* The state.                                                              *)

VARIABLES
    reqs,       \* reqs[c]: the requests the client of connection c means to send
    stream,     \* stream[c]: the same as one byte stream
    nread,      \* nread[c]: how many bytes of stream[c] conn.Read has returned
    eof,        \* eof[c]: conn.Read has returned io.EOF (the client closed)
    deadline,   \* deadline[c]: the read deadline: "unset", "armed" or "expired"
    pc,         \* pc[c]: where the goroutine of Server.handle(conn) is
    rd,         \* rd[c]: the locals of the running RequestFromReader call
    writer,     \* writer[c]: the response.Writer of the request being handled
    out,        \* out[c]: everything written to the connection, in order
    dispatched, \* dispatched[c]: the requests routed so far, in order
    served,     \* served[c]: how many routed requests have returned
    arms,       \* arms[c]: how many times SetReadDeadline has been called
    closes,     \* closes[c]: how many times conn.Close has been called
    cause,      \* cause[c]: which break left the loop of Server.handle
    running,    \* Server.running
    crashed,    \* the process has died of an unrecovered panic
    listener,   \* Server.Listener and the accept loop of Listen
    pinput,     \* the byte sequence of a RequestFromReader call on its own
    pread,      \* how many of its bytes the reader has returned
    pst,        \* the locals of that call
    plast,      \* the Read before the last parse call of it: the locals then
    wr,         \* a response.Writer used on its own: the writer and its last call
    rt,         \* a Server configured and routing requests on its own
    hd,         \* a header container used on its own: the map and its last call
    sm          \* a Streamer call on its own: its locals, its reader and its Writer

connVars == <<reqs, stream, nread, eof, deadline, pc, rd, writer, out, dispatched,
              served, arms, closes, cause>>
srvVars == <<running, crashed, listener>>
parseVars == <<pinput, pread, pst, plast>>
unitVars == <<wr, rt, hd, sm>>
vars == <<connVars, srvVars, parseVars, unitVars>>

NoWriter == [writerState |-> 0, sink |-> <<>>]

\* after Listen: the listener is open and the goroutine is in its accept loop
Listening == [closed |-> FALSE, accepting |-> TRUE]

InitConn(scripts1, scripts2) ==
    /\ reqs \in {f \in [Conns -> scripts1 \cup scripts2] : f[1] \in scripts1 /\ f[2] \in scripts2}
    /\ stream = [c \in Conns |-> Flat(reqs[c])]
    /\ nread = [c \in Conns |-> 0]
    /\ eof = [c \in Conns |-> FALSE]
    /\ deadline = [c \in Conns |-> "unset"]
    /\ rd = [c \in Conns |-> readerStart]
    /\ writer = [c \in Conns |-> NoWriter]
    /\ out = [c \in Conns |-> <<>>]
    /\ dispatched = [c \in Conns |-> <<>>]
    /\ served = [c \in Conns |-> 0]
    /\ arms = [c \in Conns |-> 0]
    /\ closes = [c \in Conns |-> 0]
    /\ cause = [c \in Conns |-> "none"]
    /\ running = FALSE
    /\ crashed = FALSE
    /\ listener = Listening

\* a Server on its own, as Serve returns it: nothing registered, no request
\* routed yet
NoRouting == [method |-> <<>>, target |-> <<>>, w |-> NoWriter, trace |-> << >>]
RouteStart == [phase |-> "config", srv |-> Serve, nreg |-> 0, overridden |-> FALSE,
               last |-> NoRouting]

\* a Writer on its own, as NewResponseWriter returns it, and no call yet
WriterStart == [w |-> NewResponseWriter, before |-> NewResponseWriter,
                op |-> "none", err |-> "nil", n |-> 0, calls |-> <<>>]

\* a header container on its own, as NewHeaders returns it, and no call yet
NoResult == [n |-> 0, done |-> FALSE, err |-> "nil", val |-> <<>>, ok |-> FALSE]
HeadersStart == [h |-> NewHeaders, before |-> NewHeaders, op |-> "none", key |-> <<>>,
                 value |-> <<>>, res |-> NoResult, hist |-> <<>>]

\* no Read of a RequestFromReader call yet
NoRead == [st |-> readerStart, read |-> 0, eof |-> FALSE]

InitParseIdle ==
    /\ pinput = <<>>
    /\ pread = 0
    /\ pst = readerStart
    /\ plast = NoRead

\* no Writer and no Server used on their own
\* no Streamer call
StreamIdle == [pc |-> "idle", w |-> NoWriter, h |-> NewHeaders, src |-> <<>>, pos |-> 0,
               delivered |-> <<>>, rawBody |-> <<>>, empties |-> 0, failed |-> FALSE,
               trailers |-> NewHeaders]

InitUnitIdle ==
    /\ wr = WriterStart
    /\ rt = RouteStart
    /\ hd = HeadersStart
    /\ sm = StreamIdle

\* One client connects; the second connection slot stays unused.
Init ==
    /\ InitConn(Scripts, {<<>>})
    /\ pc = [c \in Conns |-> IF c = 1 THEN "pending" ELSE "absent"]
    /\ InitParseIdle
    /\ InitUnitIdle

\* Two clients connect.
InitIso ==
    /\ InitConn(IsoScripts, IsoScripts)
    /\ pc = [c \in Conns |-> "pending"]
    /\ InitParseIdle
    /\ InitUnitIdle

----------------------------------------------------------------------------
(* The accept loop and the session, Server.Listen and Server.handle.  A    *)
(* session step runs from one blocking call to the next: conn.Read, the    *)
(* call of the handler chain, conn.Close.                                  *)

Min(a, b) == IF a < b THEN a ELSE b

\* listener.Accept returns a connection: s.running = true; go s.handle(conn)
Accept(c) ==
    /\ ~crashed
    /\ listener.accepting /\ ~listener.closed
    /\ pc[c] = "pending"
    /\ pc' = [pc EXCEPT ![c] = "start"]
    /\ running' = TRUE
    /\ UNCHANGED <<reqs, stream, nread, eof, deadline, rd, writer, out, dispatched,
                   served, arms, closes, cause, crashed, listener, parseVars, unitVars>>

\* Server.handle up to its loop: keep-alive options and the first
\* conn.SetReadDeadline; the first RequestFromReader call starts
HandleStart(c) ==
    /\ ~crashed
    /\ pc[c] = "start"
    /\ pc' = [pc EXCEPT ![c] = "read"]
    /\ deadline' = [deadline EXCEPT ![c] = "armed"]
    /\ arms' = [arms EXCEPT ![c] = @ + 1]
    /\ rd' = [rd EXCEPT ![c] = readerStart]
    /\ UNCHANGED <<reqs, stream, nread, eof, writer, out, dispatched, served, closes,
                   cause, srvVars, parseVars, unitVars>>

\* which break of Server.handle an error of RequestFromReader takes
\* (lines 117-134); every one of them only leaves the loop
ErrorCause(err) == IF err = "timeout" THEN "timeout" ELSE "error"

\* where Server.handle goes once a Read has returned and readStep has run:
\* on in the read loop, to the panic, to a break, or on to routing
PcAfterRead(st) ==
    CASE st.ret = "loop" -> "read"
      [] st.ret = "panic" -> "panic"
      [] st.ret = "ok" -> IF EmptyRequest(st.request) THEN "closing" ELSE "route"
      [] OTHER -> "closing"

CauseAfterRead(st, old) ==
    CASE st.ret \in {"loop", "panic"} -> old
      [] st.ret = "ok" -> IF EmptyRequest(st.request) THEN "empty" ELSE old
      [] OTHER -> ErrorCause(st.ret)

ReadReturns(c, st) ==
    /\ rd' = [rd EXCEPT ![c] = st]
    /\ pc' = [pc EXCEPT ![c] = PcAfterRead(st)]
    /\ cause' = [cause EXCEPT ![c] = CauseAfterRead(st, @)]
    /\ crashed' = (PcAfterRead(st) = "panic")

\* The client sends a request only once it has the response to the one
\* before (the clients of the keep-alive tests; the server does not support
\* pipelining): the bytes a Read can return end with the request in progress.
RECURSIVE LenUpTo(_, _)
LenUpTo(ss, n) == IF n = 0 \/ ss = <<>> THEN 0 ELSE Len(Head(ss)) + LenUpTo(Tail(ss), n - 1)

Available(c) == LenUpTo(reqs[c], Len(out[c]) + 1) - nread[c]

\* conn.Read(buffer[idx:]) returns k bytes: at most the `arrived` bytes that
\* wait in the socket and what the rest of the buffer holds
ReadBytes(c, k, arrived) ==
    /\ ~crashed
    /\ pc[c] = "read"
    /\ ~eof[c]
    /\ k \in 1..Min(arrived, bufferSize - Len(rd[c].buffer))
    /\ nread' = [nread EXCEPT ![c] = @ + k]
    /\ ReadReturns(c, readStep(rd[c], SubSeq(stream[c], nread[c] + 1, nread[c] + k), "nil"))
    /\ UNCHANGED <<reqs, stream, eof, deadline, writer, out, dispatched, served, arms,
                   closes, running, listener, parseVars, unitVars>>

\* conn.Read returns any number of bytes
ReadData(c) == \E k \in 1..bufferSize : ReadBytes(c, k, Available(c))

\* the buffer is full (idx = bufferSize): conn.Read(buffer[idx:]) is a read
\* into an empty slice, which returns (0, nil) at once, without waiting for
\* data, for the end of the stream or for the deadline; parse runs again on
\* the same bytes
ReadZero(c) ==
    /\ ~crashed
    /\ pc[c] = "read"
    /\ Len(rd[c].buffer) = bufferSize
    /\ ReadReturns(c, readStep(rd[c], <<>>, "nil"))
    /\ UNCHANGED <<reqs, stream, nread, eof, deadline, writer, out, dispatched, served, arms,
                   closes, running, listener, parseVars, unitVars>>

\* the client has closed its side: conn.Read returns (0, io.EOF)
ReadEOF(c) ==
    /\ ~crashed
    /\ pc[c] = "read"
    /\ Len(rd[c].buffer) < bufferSize
    /\ eof' = [eof EXCEPT ![c] = TRUE]
    /\ ReadReturns(c, readStep(rd[c], <<>>, "EOF"))
    /\ UNCHANGED <<reqs, stream, nread, deadline, writer, out, dispatched, served, arms,
                   closes, running, listener, parseVars, unitVars>>

\* the read deadline passes while the session waits in conn.Read, which
\* returns a timeout error
ReadTimeout(c) ==
    /\ ~crashed
    /\ pc[c] = "read"
    /\ Len(rd[c].buffer) < bufferSize
    /\ deadline[c] = "armed"
    /\ deadline' = [deadline EXCEPT ![c] = "expired"]
    /\ ReadReturns(c, readStep(rd[c], <<>>, "timeout"))
    /\ UNCHANGED <<reqs, stream, nread, eof, writer, out, dispatched, served,
                   arms, closes, running, listener, parseVars, unitVars>>

\* the handler chain started without waiting for it (go handler(...))
PcInHandlerDetached == "read"

\* the program point once the handler chain has been called
PcInHandler == "handler"

\* lines 147-164: the request passed the guard; a writer is made and the
\* request is routed, the handler chain is running
Dispatch(c) ==
    /\ ~crashed
    /\ pc[c] = "route"
    /\ pc' = [pc EXCEPT ![c] = PcInHandler]
    /\ writer' = [writer EXCEPT ![c] = NewResponseWriter]
    /\ dispatched' = [dispatched EXCEPT ![c] = Append(@, [request |-> rd[c].request,
                                                          atEOF |-> eof[c]])]
    /\ UNCHANGED <<reqs, stream, nread, eof, deadline, rd, out, served, arms, closes,
                   cause, srvVars, parseVars, unitVars>>

\* lines 174-177: leave the loop when the client asked to close
PcAfterServe(r) == IF shouldClose(r) THEN "closing" ELSE "read"

\* the loop without the SetReadDeadline of line 185
ArmsNeverReset(r, n) == n

\* line 185: conn.SetReadDeadline before the next request; n calls so far
ArmsAfterServe(r, n) == IF shouldClose(r) THEN n ELSE n + 1

\* the handler chain returns, its response written; lines 174-186
HandlerReturn(c) ==
    \E res \in RouteRequest(ConfiguredServer, rd[c].request) :
    LET r == rd[c].request
        w == res.w
    IN  /\ ~crashed
        /\ pc[c] = "handler"
        /\ writer' = [writer EXCEPT ![c] = w]
        /\ out' = [out EXCEPT ![c] = Append(@, [for |-> Len(dispatched[c]), sink |-> w.sink,
                                                 writerState |-> w.writerState])]
        /\ served' = [served EXCEPT ![c] = @ + 1]
        /\ pc' = [pc EXCEPT ![c] = PcAfterServe(r)]
        /\ cause' = [cause EXCEPT ![c] = IF shouldClose(r) THEN "close" ELSE @]
        /\ arms' = [arms EXCEPT ![c] = ArmsAfterServe(r, @)]
        /\ deadline' = [deadline EXCEPT ![c] = IF arms'[c] # arms[c] THEN "armed" ELSE @]
        /\ rd' = [rd EXCEPT ![c] = IF shouldClose(r) THEN @ ELSE readerStart]
        /\ UNCHANGED <<reqs, stream, nread, eof, dispatched, closes, srvVars, parseVars, unitVars>>

\* lines 188-190: conn.Close() after the loop
CloseConn(c) ==
    /\ ~crashed
    /\ pc[c] = "closing"
    /\ pc' = [pc EXCEPT ![c] = "closed"]
    /\ closes' = [closes EXCEPT ![c] = @ + 1]
    /\ UNCHANGED <<reqs, stream, nread, eof, deadline, rd, writer, out, dispatched,
                   served, arms, cause, srvVars, parseVars, unitVars>>

Next ==
    \E c \in Conns :
        \/ Accept(c)
        \/ HandleStart(c)
        \/ ReadData(c)
        \/ ReadEOF(c)
        \/ ReadTimeout(c)
        \/ Dispatch(c)
        \/ HandlerReturn(c)
        \/ CloseConn(c)

Spec == Init /\ [][Next]_vars

\* two connections at once
SpecIso == InitIso /\ [][Next]_vars

----------------------------------------------------------------------------
(* The accept loop of Listen with two clients: Accept may fail, and the    *)
(* application may call Close.                                             *)

AcceptScripts == {<<ReqPlain>>, <<ReqClose>>}

InitAccept ==
    /\ InitConn(AcceptScripts, AcceptScripts)
    /\ pc = [c \in Conns |-> "pending"]
    /\ InitParseIdle
    /\ InitUnitIdle

\* listener.Accept returns an error while the listener is open: the loop is
\* left when s.running is false, and goes on otherwise (lines 76-85)
AcceptError ==
    /\ ~crashed
    /\ listener.accepting /\ ~listener.closed
    /\ listener' = [listener EXCEPT !.accepting = running]
    /\ UNCHANGED <<connVars, running, crashed, parseVars, unitVars>>

\* Server.Close: s.running = false; s.Listener.Close()
ServerClose ==
    /\ ~crashed
    /\ ~listener.closed
    /\ running' = FALSE
    /\ listener' = [listener EXCEPT !.closed = TRUE]
    /\ UNCHANGED <<connVars, crashed, parseVars, unitVars>>

\* listener.Accept returns net.ErrClosed: the loop is left
AcceptClosed ==
    /\ ~crashed
    /\ listener.accepting /\ listener.closed
    /\ listener' = [listener EXCEPT !.accepting = FALSE]
    /\ UNCHANGED <<connVars, running, crashed, parseVars, unitVars>>

\* conn.Read returns all that has arrived
ReadAll(c) == ReadBytes(c, Available(c), Available(c))

NextAccept ==
    \/ \E c \in Conns :
          \/ Accept(c)
          \/ HandleStart(c)
          \/ ReadAll(c)
          \/ ReadEOF(c)
          \/ ReadTimeout(c)
          \/ Dispatch(c)
          \/ HandlerReturn(c)
          \/ CloseConn(c)
    \/ AcceptError
    \/ ServerClose
    \/ AcceptClosed

SpecAccept == InitAccept /\ [][NextAccept]_vars

----------------------------------------------------------------------------
(* One session whose client sends requests longer than the read buffer.    *)
(* The session goroutine keeps running, and the client goes on sending,    *)
(* closes, or lets the deadline pass: weak fairness of the steps.          *)

Filler(n) == [i \in 1..n |-> "a"]

\* a request line longer than the buffer, a header line longer than the
\* buffer, and a request longer than the buffer whose lines each fit
ReqLongLine ==
    <<"G","E","T",SP,"/">> \o Filler(bufferSize)
    \o <<SP,"H","T","T","P","/","1",".","1">> \o CRLF \o CRLF
ReqLongHeader == LineGetRoot \o <<"x",":">> \o Filler(bufferSize) \o CRLF \o CRLF
ReqLongWhole ==
    <<"G","E","T",SP,"/">> \o Filler(bufferSize \div 2 + 100)
    \o <<SP,"H","T","T","P","/","1",".","1">> \o CRLF
    \o <<"x",":">> \o Filler(bufferSize \div 2 + 100) \o CRLF \o CRLF

LongScripts == {<<ReqLongLine>>, <<ReqLongHeader>>, <<ReqLongWhole>>, <<ReqPlain>>,
                <<ReqClose>>, <<ReqBadLine>>}

InitLong ==
    /\ InitConn(LongScripts, {<<>>})
    /\ pc = [c \in Conns |-> IF c = 1 THEN "pending" ELSE "absent"]
    /\ InitParseIdle
    /\ InitUnitIdle

\* conn.Read returns a quarter of a buffer, half a buffer, or all there is room for
ReadLong(c) ==
    \E k \in {bufferSize \div 4, bufferSize \div 2, Min(Available(c), bufferSize - Len(rd[c].buffer))} :
        ReadBytes(c, k, Available(c))

NextLong ==
    \E c \in Conns :
        \/ Accept(c)
        \/ HandleStart(c)
        \/ ReadLong(c)
        \/ ReadZero(c)
        \/ ReadEOF(c)
        \/ ReadTimeout(c)
        \/ Dispatch(c)
        \/ HandlerReturn(c)
        \/ CloseConn(c)

\* the goroutine of the session runs on, and handlers return
SessionSteps ==
    \E c \in Conns :
        Accept(c) \/ HandleStart(c) \/ Dispatch(c) \/ HandlerReturn(c) \/ CloseConn(c)

\* a blocked Read ends: the client closes or the deadline passes
ReadEnds == \E c \in Conns : ReadEOF(c) \/ ReadTimeout(c)

SpecLong ==
    InitLong /\ [][NextLong]_vars /\ WF_vars(SessionSteps) /\ WF_vars(ReadEnds)

----------------------------------------------------------------------------
(* One session whose client pipelines: it sends all its requests at once,  *)
(* without waiting for the responses.                                      *)

PipeScripts == {<<ReqPlain, ReqNoRoute>>, <<ReqKeepAlive, ReqPlain>>, <<ReqNoRoute, ReqClose>>,
                <<ReqPlain>>, <<ReqBadLine, ReqPlain>>}

InitPipe ==
    /\ InitConn(PipeScripts, {<<>>})
    /\ pc = [c \in Conns |-> IF c = 1 THEN "pending" ELSE "absent"]
    /\ InitParseIdle
    /\ InitUnitIdle

\* conn.Read returns any number of the bytes sent: the whole stream waits in
\* the socket
ReadPipelined(c) ==
    \E k \in 1..bufferSize : ReadBytes(c, k, Len(stream[c]) - nread[c])

NextPipe ==
    \E c \in Conns :
        \/ Accept(c)
        \/ HandleStart(c)
        \/ ReadPipelined(c)
        \/ ReadEOF(c)
        \/ ReadTimeout(c)
        \/ Dispatch(c)
        \/ HandlerReturn(c)
        \/ CloseConn(c)

SpecPipe == InitPipe /\ [][NextPipe]_vars

----------------------------------------------------------------------------
(* RequestFromReader on its own, fed one byte sequence in arbitrary chunks *)
(* and then io.EOF.                                                        *)

ReqChunked == LineGetRoot \o TransferEncodingKey \o <<":">> \o ChunkedValue \o CRLF \o CRLF \o <<"A">>
LineNoName == <<"g","e","t",SP,"/",SP,"X","/","2">> \o CRLF

\* inputs that end before the request is complete: nothing at all, the request
\* line only, headers without the blank line, the body still to come, a header
\* line cut short
ReqOpenHeaders == LineGetRoot \o HdrKeepAlive
ReqBodyPending == LinePostRoot \o HdrLength2 \o CRLF
ReqHalfHeader == LineGetRoot \o <<"C","o","n">>
Incomplete == {<<>>, LineGetRoot, ReqOpenHeaders, ReqBodyPending, ReqHalfHeader}

\* request lines of three tokens with another version, another protocol
\* name, two tokens, an empty line
ReqVersion2 == <<"G","E","T",SP,"/",SP,"H","T","T","P","/","2">> \o CRLF \o CRLF
ReqOtherName == <<"G","E","T",SP,"/",SP,"F","T","P","/","1",".","1">> \o CRLF \o CRLF
ReqTwoParts == <<"G","E","T",SP,"/">> \o CRLF \o CRLF
OddLines == {ReqVersion2, ReqOtherName, ReqTwoParts, CRLF}

\* requests that declare a body length: no byte declared and none sent, none
\* declared and one sent, two declared and three sent; and a request without
\* content-length followed by two more bytes
HdrLength0 == ContentLengthKey \o <<":","0">> \o CRLF
ReqLength0 == LinePostRoot \o HdrLength0 \o CRLF
ReqLength0Extra == ReqLength0 \o <<"A">>
ReqBodyLong == ReqBody \o <<"C">>
ReqPlainExtra == ReqPlain \o <<"A","B">>
BodyInputs == {ReqLength0, ReqLength0Extra, ReqBodyLong, ReqPlainExtra}

ParseInputs == RequestPool \cup Incomplete \cup OddLines \cup BodyInputs
               \cup {ReqChunked, LineNoName \o CRLF}

InitParse ==
    /\ pinput \in ParseInputs
    /\ pread = 0
    /\ pst = readerStart
    /\ plast = NoRead
    /\ InitConn({<<>>}, {<<>>})
    /\ pc = [c \in Conns |-> "absent"]
    /\ InitUnitIdle

\* reader.Read returns the next k bytes
ChunkRead ==
    /\ pst.ret = "loop"
    /\ \E k \in 1..Min(Len(pinput) - pread, bufferSize - Len(pst.buffer)) :
         /\ pread' = pread + k
         /\ pst' = readStep(pst, SubSeq(pinput, pread + 1, pread + k), "nil")
    /\ plast' = [st |-> pst, read |-> pread, eof |-> FALSE]
    /\ UNCHANGED <<pinput, connVars, srvVars, unitVars>>

\* reader.Read returns (0, io.EOF) once the bytes are used up
ChunkEOF ==
    /\ pst.ret = "loop"
    /\ pread = Len(pinput)
    /\ pst' = readStep(pst, <<>>, "EOF")
    /\ plast' = [st |-> pst, read |-> pread, eof |-> TRUE]
    /\ UNCHANGED <<pinput, pread, connVars, srvVars, unitVars>>

NextParse == ChunkRead \/ ChunkEOF

SpecParse == InitParse /\ [][NextParse]_vars

----------------------------------------------------------------------------
(* A response.Writer on its own: a handler may call the operations of the  *)
(* Writer in any order.                                                    *)

\* no connection and no server at work
InitServerIdle ==
    /\ InitConn({<<>>}, {<<>>})
    /\ pc = [c \in Conns |-> "absent"]

\* how many calls are made on one Writer
MaxCalls == 4

InitWriter ==
    /\ InitServerIdle
    /\ InitParseIdle
    /\ InitUnitIdle

\* one call on the Writer: the writer before and after, the error returned
WriterCall(op, arg, after, err) ==
    /\ wr.n < MaxCalls
    /\ wr' = [w |-> after, before |-> wr.w, op |-> op, err |-> err, n |-> wr.n + 1,
              calls |-> Append(wr.calls, [op |-> op, arg |-> arg])]
    /\ UNCHANGED <<connVars, srvVars, parseVars, rt, hd, sm>>

OneTrailer == MapPut(NewHeaders, <<"x">>, <<"1">>)

\* the header sets handed to WriteHeaders: none, the default set for a body of
\* 0 or 1 bytes, a set without content-length, a chunked set
OnlyConnection == Set(NewHeaders, ConnectionKey, CloseValue)
OnlyChunked == Set(NewHeaders, TransferEncodingKey, ChunkedValue)
WriterHeaders == {NewHeaders, GetDefaultHeaders(0), GetDefaultHeaders(1), OnlyConnection,
                  OnlyChunked}

CallWriteStatusLine ==
    \E statusCode \in {200, 404} :
        WriterCall("WriteStatusLine", statusCode, WriteStatusLine(wr.w, statusCode),
                   isCorrectState(wr.w, writerStateNotStarted))

CallWriteHeaders ==
    \E h \in WriterHeaders :
        WriterCall("WriteHeaders", h, WriteHeaders(wr.w, h),
                   isCorrectState(wr.w, writerStateStatusLine))

CallWriteBody ==
    \E p \in {<<>>, <<"A">>} :
        WriterCall("WriteBody", p, WriteBody(wr.w, p), isCorrectState(wr.w, writerStateHeaders))

\* WriteChunkedBody and WriteChunkedBodyDone return the error of the sink only
CallWriteChunkedBody ==
    \E p \in {<<>>, <<"A">>} :
        WriterCall("WriteChunkedBody", p, WriteChunkedBody(wr.w, p), "nil")

CallWriteChunkedBodyDone ==
    \E trailers \in {NewHeaders, OneTrailer} :
        WriterCall("WriteChunkedBodyDone", trailers,
                   WriteChunkedBodyDone(wr.w, trailers), "nil")

NextWriter ==
    \/ CallWriteStatusLine
    \/ CallWriteHeaders
    \/ CallWriteBody
    \/ CallWriteChunkedBody
    \/ CallWriteChunkedBodyDone

SpecWriter == InitWriter /\ [][NextWriter]_vars

----------------------------------------------------------------------------
(* A Server on its own: main configures it (Use, AddHandler,               *)
(* OverrideNotFoundHandler), calls Listen, and requests are routed.        *)

RouteTest == <<"/","t","e","s","t">>
RouteWakanda == <<"/","w","a","k","a","n","d","a">>
RouteWakandaID == <<"/","w","a","k","a","n","d","a","/","{","i","d","}","/","{","l","a","l","a","}">>
RouteQuery == <<"/","q","u","e","r","y">>

\* the registrations of cmd/httpserver/main.go, in their order
Registrations ==
    <<[route |-> RouteTest, hf |-> "wakandaHandler", method |-> MethodGET, uses |-> << >>],
      [route |-> RouteWakanda, hf |-> "wakandaHandler", method |-> MethodGET, uses |-> << >>],
      [route |-> RouteWakanda, hf |-> "wakandaPOSTHandler", method |-> MethodPOST,
       uses |-> << >>],
      [route |-> RouteWakandaID, hf |-> "wakandaIDHandler", method |-> MethodGET,
       uses |-> << >>],
      [route |-> RouteQuery, hf |-> "queryHandler", method |-> MethodGET,
       uses |-> <<"specfic middleware", "specfic middleware 1">>]>>

RECURSIVE UseAll(_, _, _)
UseAll(h, route, ms) ==
    IF ms = <<>> THEN h ELSE UseAll(Use(h, route, Head(ms)), route, Tail(ms))

\* server.AddHandler(route, hf).GET() or .POST(), then .Use(...) for each
\* middleware of the route
AddHandler(srv, reg) ==
    [srv EXCEPT !.handlers =
        UseAll(AllowMethod(Add(@, reg.route, reg.hf), reg.route, reg.method),
               reg.route, reg.uses)]

\* how many global middlewares main registers
MaxGlobal == 2

\* the requests routed: their methods and their targets
Methods == {MethodGET, MethodPOST, MethodDELETE}
Targets ==
    {RouteTest, RouteWakanda, RouteQuery,
     RouteWakanda \o <<"/","4","2","/","b">>,
     RouteWakanda \o <<"/","4","2","/","b","?","x","=","y">>,
     RouteWakanda \o <<"/","4","2","/","b","/">>,
     RouteWakanda \o <<"/","4","2">>,
     RouteTest \o <<"?","x","=","y">>,
     <<"/","n","o","p","e">>}

RequestFor(method, target) ==
    [newRequest EXCEPT !.RequestLine =
        [Method |-> method, RequestTarget |-> target, HttpVersion |-> <<"1",".","1">>]]

InitRoute ==
    /\ InitServerIdle
    /\ InitParseIdle
    /\ InitUnitIdle

\* server.Use(m)
SrvUse ==
    /\ rt.phase = "config"
    /\ Len(rt.srv.middleware) < Min(MaxGlobal, Len(GlobalLogs))
    /\ rt' = [rt EXCEPT !.srv = ServerUse(@, GlobalLogs[Len(@.middleware) + 1])]
    /\ UNCHANGED <<connVars, srvVars, parseVars, wr, hd, sm>>

\* the next server.AddHandler of main
SrvAddHandler ==
    /\ rt.phase = "config"
    /\ rt.nreg < Len(Registrations)
    /\ rt' = [rt EXCEPT !.srv = AddHandler(@, Registrations[rt.nreg + 1]),
                        !.nreg = @ + 1]
    /\ UNCHANGED <<connVars, srvVars, parseVars, wr, hd, sm>>

\* server.OverrideNotFoundHandler(customNotFound)
SrvOverrideNotFound ==
    /\ rt.phase = "config"
    /\ ~rt.overridden
    /\ rt' = [rt EXCEPT !.srv = OverrideNotFoundHandler(@, "customNotFound"),
                        !.overridden = TRUE]
    /\ UNCHANGED <<connVars, srvVars, parseVars, wr, hd, sm>>

\* server.Listen(): the configuration is over
SrvListen ==
    /\ rt.phase = "config"
    /\ rt' = [rt EXCEPT !.phase = "serving"]
    /\ UNCHANGED <<connVars, srvVars, parseVars, wr, hd, sm>>

\* a parsed request is routed (Server.handle, lines 156-172)
RouteStep ==
    /\ rt.phase = "serving"
    /\ \E method \in Methods, target \in Targets :
         \E res \in RouteRequest(rt.srv, RequestFor(method, target)) :
            rt' = [rt EXCEPT !.last = [method |-> method, target |-> target,
                                       w |-> res.w, trace |-> res.trace]]
    /\ UNCHANGED <<connVars, srvVars, parseVars, wr, hd, sm>>

NextRoute ==
    \/ SrvUse
    \/ SrvAddHandler
    \/ SrvOverrideNotFound
    \/ SrvListen
    \/ RouteStep

SpecRoute == InitRoute /\ [][NextRoute]_vars

----------------------------------------------------------------------------
(* A Writer on a sink whose Write may return an error (a connection the    *)
(* client has closed): the calls of the plain body sequence, each either   *)
(* written or failed by the sink.  A failed Write emits nothing.           *)

ErrSink == "write: broken pipe"

\* Writer.WriteStatusLine when w.Writer.Write returns an error (lines 86-89)
WriteStatusLineFailing(w, statusCode) ==
    IF w.writerState # writerStateNotStarted THEN w
    ELSE [w EXCEPT !.writerState = writerStateStatusLine]

\* Writer.WriteHeaders when a Write of its loop or the Write of the blank
\* line returns an error: the lines of `written` are out (lines 109-121)
WriteHeadersFailing(w, headers, written) ==
    IF w.writerState # writerStateStatusLine THEN w
    ELSE LET hs == IF DOMAIN headers = {} THEN GetDefaultHeaders(0) ELSE headers
         IN  [w EXCEPT !.sink = Append(@, [seg |-> "headers",
                                            h |-> [key \in written \cap DOMAIN hs |-> hs[key]],
                                            blank |-> FALSE])]

\* Writer.WriteBody when w.Writer.Write returns an error (lines 134-137)
WriteBodyFailing(w, p) == w

\* the lines that can be out when a Write of WriteHeaders fails: not all of
\* them, or all of them when the blank line is still to come
WrittenBefore(headers) ==
    LET hs == IF DOMAIN headers = {} THEN GetDefaultHeaders(0) ELSE headers
    IN  {written \in SUBSET DOMAIN hs :
            written # DOMAIN hs \/ HasContentLength(headers).ok}

FailWriteStatusLine ==
    /\ isCorrectState(wr.w, writerStateNotStarted) = "nil"
    /\ \E statusCode \in {200, 404} :
         WriterCall("WriteStatusLine", statusCode, WriteStatusLineFailing(wr.w, statusCode),
                    ErrSink)

FailWriteHeaders ==
    /\ isCorrectState(wr.w, writerStateStatusLine) = "nil"
    /\ \E h \in WriterHeaders : \E written \in WrittenBefore(h) :
         WriterCall("WriteHeaders", h, WriteHeadersFailing(wr.w, h, written), ErrSink)

FailWriteBody ==
    /\ isCorrectState(wr.w, writerStateHeaders) = "nil"
    /\ \E p \in {<<>>, <<"A">>} :
         WriterCall("WriteBody", p, WriteBodyFailing(wr.w, p), ErrSink)

NextSink ==
    \/ CallWriteStatusLine
    \/ CallWriteHeaders
    \/ CallWriteBody
    \/ FailWriteStatusLine
    \/ FailWriteHeaders
    \/ FailWriteBody

SpecSink == InitWriter /\ [][NextSink]_vars

----------------------------------------------------------------------------
(* stream.Streamer on its own: a chunked response made from a reader,      *)
(* whose Read may return any count up to the 32 bytes asked for, with or   *)
(* without an error, on a sink that may fail.                              *)

\* data := make([]byte, 32)
StreamBuf == 32

\* how many times the reader returns (0, nil)
MaxEmpty == 1

TrailerKey == <<"t","r","a","i","l","e","r">>
TrailerNames ==
    <<"X","-","C","o","n","t","e","n","t","-","S","H","A","2","5","6",","," ","X","-","C","o","n","t","e","n","t","-","L","e","n","g","t","h">>
XContentSHA256 == <<"X","-","C","o","n","t","e","n","t","-","S","H","A","2","5","6">>
XContentLength == <<"X","-","C","o","n","t","e","n","t","-","L","e","n","g","t","h">>
VideoMp4 == <<"v","i","d","e","o","/","m","p","4">>
TextPlainValue == <<"t","e","x","t","/","p","l","a","i","n">>

\* bytesToStr(sha256.Sum256(rawBody)): the digest is not computed; it is a
\* value that differs for different bodies
Sum256Hex(rawBody) == <<"#">> \o rawBody

\* what the readers deliver: nothing, a few bytes, more than one buffer
StreamSources == {<<>>, <<"A">>, <<"A","B">>, Filler(StreamBuf + 1)}

\* the headers streamHandler and videoHandler hand over (routes.go:72-82,
\* 94-97)
StreamHeaders ==
    {Replace(GetDefaultHeaders(0), ContentTypeKey, TextPlainValue),
     Replace(NewHeaders, ContentTypeKey, VideoMp4)}

InitStream ==
    /\ InitServerIdle
    /\ InitParseIdle
    /\ wr = WriterStart
    /\ rt = RouteStart
    /\ hd = HeadersStart
    /\ sm \in {[StreamIdle EXCEPT !.pc = "start", !.w = NewResponseWriter, !.h = h,
                                  !.src = src] : h \in StreamHeaders, src \in StreamSources}

StreamUnchanged == UNCHANGED <<connVars, srvVars, parseVars, wr, rt, hd>>

\* the head of Streamer: status line, the headers made chunked, WriteHeaders
StreamStart ==
    /\ sm.pc = "start"
    /\ LET h1 == Delete(sm.h, ContentLengthKey)
           h2 == Set(h1, TransferEncodingKey, ChunkedValue)
           h3 == Set(h2, TrailerKey, TrailerNames)
       IN  sm' = [sm EXCEPT !.pc = "loop", !.h = h3,
                            !.w = WriteHeaders(WriteStatusLine(@, 200), h3)]
    /\ StreamUnchanged

\* one turn of the loop in which reader.Read returns n bytes and no error:
\* WriteChunkedBody(data[:n]), and the bytes join rawBody when the sink took
\* them; a sink error leaves the loop
StreamRead ==
    /\ sm.pc = "loop"
    /\ \E n \in {0, 1, Min(StreamBuf, Len(sm.src) - sm.pos)}, sinkFails \in BOOLEAN :
         LET data == SubSeq(sm.src, sm.pos + 1, sm.pos + n)
         IN  /\ n <= Len(sm.src) - sm.pos
             /\ n = 0 => sm.empties < MaxEmpty
             /\ sm' = IF sinkFails
                      THEN [sm EXCEPT !.pc = "trailers", !.failed = TRUE, !.pos = @ + n,
                                      !.delivered = @ \o data]
                      ELSE [sm EXCEPT !.pos = @ + n, !.delivered = @ \o data,
                                      !.w = WriteChunkedBody(@, data),
                                      !.rawBody = @ \o data,
                                      !.empties = IF n = 0 THEN @ + 1 ELSE @]
    /\ StreamUnchanged

\* the turn in which reader.Read returns an error, io.EOF at the end of the
\* source or a failure before it, alone or together with n last bytes: the
\* loop is left at once
StreamReadError ==
    /\ sm.pc = "loop"
    /\ \E n \in {0, Min(StreamBuf, Len(sm.src) - sm.pos)} :
         LET data == SubSeq(sm.src, sm.pos + 1, sm.pos + n)
         IN  sm' = [sm EXCEPT !.pc = "trailers", !.pos = @ + n, !.delivered = @ \o data]
    /\ StreamUnchanged

\* after the loop: the trailers and WriteChunkedBodyDone; a sink that failed
\* takes nothing more
StreamDone ==
    /\ sm.pc = "trailers"
    /\ LET t1 == Set(NewHeaders, XContentSHA256, Sum256Hex(sm.rawBody))
           trailers == Set(t1, XContentLength, Itoa(Len(sm.rawBody)))
       IN  sm' = [sm EXCEPT !.pc = "done", !.trailers = trailers,
                            !.w = IF sm.failed THEN @ ELSE WriteChunkedBodyDone(@, trailers)]
    /\ StreamUnchanged

NextStream ==
    \/ StreamStart
    \/ StreamRead
    \/ StreamReadError
    \/ StreamDone

SpecStream == InitStream /\ [][NextStream]_vars

----------------------------------------------------------------------------
(* A Server whose application registers patterns that overlap, in any      *)
(* order, and then routes requests.                                        *)

PatternAX == <<"/","a","/","{","x","}">>
PatternYB == <<"/","{","y","}","/","b">>
RouteAC == <<"/","a","/","c">>

\* what the application may register
OverlapRegistrations ==
    {[route |-> PatternAX, hf |-> "wakandaHandler", method |-> MethodGET, uses |-> << >>],
     [route |-> PatternYB, hf |-> "queryHandler", method |-> MethodGET, uses |-> << >>],
     [route |-> RouteAC, hf |-> "wakandaPOSTHandler", method |-> MethodGET, uses |-> << >>]}

MatchTargets ==
    {<<"/","a","/","b">>, RouteAC, <<"/","a","/","z">>, <<"/","q","/","b">>, <<"/","n">>,
     <<"/","a","/","b","/">>, <<"/","a","/","b","?","x","=","y">>}

\* server.AddHandler(route, hf).GET() of a route not registered yet
MatchAddHandler ==
    /\ rt.phase = "config"
    /\ \E reg \in OverlapRegistrations :
         /\ reg.route \notin DOMAIN rt.srv.handlers
         /\ rt' = [rt EXCEPT !.srv = AddHandler(@, reg), !.nreg = @ + 1]
    /\ UNCHANGED <<connVars, srvVars, parseVars, wr, hd, sm>>

\* a parsed request is routed (Server.handle, lines 156-172)
MatchStep ==
    /\ rt.phase = "serving"
    /\ \E method \in {MethodGET, MethodPOST}, target \in MatchTargets :
         \E res \in RouteRequest(rt.srv, RequestFor(method, target)) :
            rt' = [rt EXCEPT !.last = [method |-> method, target |-> target,
                                       w |-> res.w, trace |-> res.trace]]
    /\ UNCHANGED <<connVars, srvVars, parseVars, wr, hd, sm>>

NextMatch ==
    \/ MatchAddHandler
    \/ SrvListen
    \/ MatchStep

SpecMatch == InitRoute /\ [][NextMatch]_vars

----------------------------------------------------------------------------
(* A header container on its own: Set, Replace, Delete, Get,               *)
(* HasContentLength and Parse called on one Headers value in any order.    *)

\* how many calls are made on one container
MaxHdrCalls == 3

\* the keys and the values the callers use: one name in two letter cases, and
\* the two names HasContentLength reads
HdrPairs ==
    {[key |-> <<"x">>, value |-> <<"a">>],
     [key |-> <<"X">>, value |-> <<"b">>],
     [key |-> <<"x">>, value |-> <<>>],
     [key |-> <<"C","o","n","t","e","n","t","-","L","e","n","g","t","h">>, value |-> <<"2">>],
     [key |-> ContentLengthKey, value |-> <<"a">>],
     [key |-> <<"T","r","a","n","s","f","e","r","-","E","n","c","o","d","i","n","g">>,
      value |-> ChunkedValue]}
HdrKeys == {p.key : p \in HdrPairs}

\* header lines of the name x in two letter cases, with and without spaces
\* around the value
LineXa == <<"x",":","a">> \o CRLF
LineXb == <<"X",":",SP,"b",SP>> \o CRLF
SameNameLines == {LineXa, LineXb}

\* the bytes handed to Parse: well-formed lines, a line with an empty value,
\* lines Parse refuses (no colon, a space before the colon, a character that
\* is no token character), the blank line, a line whose CRLF has not arrived
GoodLines ==
    SameNameLines
    \cup {<<"x",":">> \o CRLF,
          ContentLengthKey \o <<":",SP,"2">> \o CRLF,
          TransferEncodingKey \o <<":">> \o ChunkedValue \o CRLF}
BadLines == {<<"b","a","d">> \o CRLF, <<"x",SP,":","a">> \o CRLF, <<"x","@",":","a">> \o CRLF}
ParseData == GoodLines \cup BadLines \cup {CRLF, <<"x",":","a">>}

InitHeaders ==
    /\ InitServerIdle
    /\ InitParseIdle
    /\ InitUnitIdle

\* one call on the container: the map before and after, the arguments, what
\* the call returned
HeadersCall(op, key, value, after, res) ==
    /\ Len(hd.hist) < MaxHdrCalls
    /\ hd' = [h |-> after, before |-> hd.h, op |-> op, key |-> key, value |-> value,
              res |-> res, hist |-> Append(hd.hist, [op |-> op, key |-> key, value |-> value])]
    /\ UNCHANGED <<connVars, srvVars, parseVars, wr, rt, sm>>

CallSet ==
    \E p \in HdrPairs : HeadersCall("Set", p.key, p.value, Set(hd.h, p.key, p.value), NoResult)

CallReplace ==
    \E p \in HdrPairs :
        HeadersCall("Replace", p.key, p.value, Replace(hd.h, p.key, p.value), NoResult)

CallDelete ==
    \E key \in HdrKeys : HeadersCall("Delete", key, <<>>, Delete(hd.h, key), NoResult)

CallGet ==
    \E key \in HdrKeys :
        HeadersCall("Get", key, <<>>, hd.h, [NoResult EXCEPT !.val = Get(hd.h, key)])

CallHasContentLength ==
    HeadersCall("HasContentLength", <<>>, <<>>, hd.h,
                [NoResult EXCEPT !.n = HasContentLength(hd.h).n,
                                 !.ok = HasContentLength(hd.h).ok])

\* h.Parse(data): key holds the bytes handed over
CallParse ==
    \E data \in ParseData :
        LET res == HeadersParse(hd.h, data)
        IN  HeadersCall("Parse", data, <<>>, res.h,
                        [NoResult EXCEPT !.n = res.n, !.done = res.done, !.err = res.err])

NextHeaders ==
    \/ CallSet
    \/ CallReplace
    \/ CallDelete
    \/ CallGet
    \/ CallHasContentLength
    \/ CallParse

SpecHeaders == InitHeaders /\ [][NextHeaders]_vars

----------------------------------------------------------------------------
(* The claims.                                                             *)

\* what "the connection header equals close in any letter case" means
AsksClose(r) == ToLower(Get(r.Headers, ConnectionKey)) = CloseValue

\* the Request a request of the pool parses to when it arrives whole
Expected(bytes) == Outcome(RequestFromReader(readerStart, <<bytes>>)).request

Last(s) == s[Len(s)]

\* a response is complete when its writer wrote status line, headers and body
Complete(resp) == resp.writerState = writerStateBody /\ Len(resp.sink) = 3

\* C1: chunk-size independence.  However the bytes of a request are split
\* into reads, RequestFromReader ends with the same outcome (the same Request
\* or the same error) as when all the bytes arrive in one read.
C1_ChunkSizeIndependent ==
    pst.ret # "loop" => Outcome(pst) = Outcome(RequestFromReader(readerStart, <<pinput>>))

\* the requests of the pool that are well formed and do not ask to close
KeepOpenRequests == {ReqPlain, ReqKeepAlive, ReqBody, ReqNoRoute}

\* C2: keep-alive.  A client that sends N >= 2 requests, none asking to
\* close, and neither closes nor lets the deadline pass: the server does not
\* leave the loop, every request it routes is the next request of the client,
\* every response is complete and answers its own request, and once all the
\* bytes are read all N requests have been served.
C2_KeepAliveServesEveryRequest ==
    \A c \in Conns :
        (/\ Len(reqs[c]) >= 2
         /\ \A i \in DOMAIN reqs[c] : reqs[c][i] \in KeepOpenRequests
         /\ ~eof[c]
         /\ deadline[c] # "expired")
        => /\ pc[c] \notin {"closing", "closed"}
           /\ \A i \in DOMAIN dispatched[c] :
                dispatched[c][i].request = Expected(reqs[c][i])
           /\ \A j \in DOMAIN out[c] : out[c][j].for = j /\ Complete(out[c][j])
           /\ (pc[c] = "read" /\ nread[c] = Len(stream[c]) /\ rd[c] = readerStart)
                => served[c] = Len(reqs[c])

C4_NoDispatchAtEOF ==
    \A c \in Conns : \A i \in DOMAIN dispatched[c] : ~dispatched[c][i].atEOF

Is400(resp) ==
    /\ resp.sink # <<>>
    /\ resp.sink[1].seg = "status"
    /\ resp.sink[1].code \in 400..499

\* C5: parse errors.  A session that ended on a structural parse error has
\* written a 400-class error response as the last thing on the connection.
C5_ParseErrorGets400 ==
    \A c \in Conns :
        (pc[c] = "closed" /\ cause[c] = "error")
        => (out[c] # <<>> /\ Is400(Last(out[c])))

\* C6: close exactly once.  conn.Close is never called twice, and a session
\* that has ended, by a break or by an unexpected error (a panic), has called
\* it once.
C6_ClosedExactlyOnce ==
    \A c \in Conns :
        /\ closes[c] <= 1
        /\ pc[c] \in {"closed", "panic"} => closes[c] = 1

\* C7: isolation.  When the session of one connection fails, the session of
\* another connection is not stopped in the middle of its work.
C7_SessionsIsolated ==
    \A c \in Conns : \A d \in Conns :
        (c # d /\ pc[d] = "panic" /\ crashed)
        => pc[c] \notin {"start", "read", "route", "handler", "closing"}

\* C8: short body.  While fewer bytes than the declared content-length of a
\* request have arrived and the client has not closed, the request is not
\* routed; and when the deadline passes in that situation the session leaves
\* the loop with no response for it.
C8_ShortBodyNeverDispatched ==
    \A c \in Conns : \A i \in DOMAIN reqs[c] :
        (reqs[c][i] = ReqBody /\ ~eof[c] /\ nread[c] < LenUpTo(reqs[c], i))
        => /\ Len(dispatched[c]) < i
           /\ Len(out[c]) < i
           /\ deadline[c] = "expired" => pc[c] \in {"closing", "closed"}

C8_Witness ==
    /\ reqs[1][1] = ReqBody
    /\ nread[1] = Len(ReqBody) - 1
    /\ ~eof[1]
    /\ pc[1] = "closed"
    /\ closes[1] = 1
    /\ dispatched[1] = <<>>

\* C9: idle timeout.  A session whose read deadline passed has left the
\* loop by the timeout break, with nothing routed or written since the last
\* served request; and whenever the session waits in a Read the deadline is
\* armed and has been set once at the start and once after each served
\* request.
C9_IdleTimeoutSilent ==
    \A c \in Conns :
        /\ deadline[c] = "expired"
             => /\ pc[c] \in {"closing", "closed"}
                /\ cause[c] = "timeout"
                /\ Len(dispatched[c]) = served[c]
                /\ Len(out[c]) = served[c]
        /\ pc[c] = "read" => (deadline[c] = "armed" /\ arms[c] = served[c] + 1)

C9_Witness ==
    /\ served[1] = 1
    /\ deadline[1] = "expired"
    /\ pc[1] = "closed"
    /\ nread[1] > LenUpTo(reqs[1], 1)
    /\ Len(out[1]) = 1

\* C10: one request at a time.  At most one routed request has not
\* returned, and only while its handler chain runs; whenever the session is in
\* a Read every routed request has returned and its complete response is on
\* the connection.
C10_OneRequestAtATime ==
    \A c \in Conns :
        /\ Len(dispatched[c]) - served[c] \in {0, 1}
        /\ (Len(dispatched[c]) > served[c]) <=> (pc[c] = "handler")
        /\ pc[c] = "read"
             => /\ Len(out[c]) = Len(dispatched[c])
                /\ \A j \in DOMAIN out[c] : out[c][j].for = j /\ Complete(out[c][j])

C10_Witness ==
    /\ pc[1] = "read"
    /\ served[1] = 1
    /\ nread[1] > LenUpTo(reqs[1], 1)
    /\ nread[1] < Len(stream[1])

\* the state each operation of the Writer requires
RequiredState(op) ==
    CASE op = "WriteStatusLine" -> writerStateNotStarted
      [] op = "WriteHeaders" -> writerStateStatusLine
      [] op = "WriteBody" -> writerStateHeaders

\* C19: write order.  In any sequence of calls on one Writer, a call of
\* WriteStatusLine, WriteHeaders or WriteBody made in its required state
\* returns no error, writes once and moves the writer one state on; made in
\* any other state it returns the state error and leaves the writer, its
\* state and the bytes written, as it was.
C19_WriteOrderEnforced ==
    wr.op \in {"WriteStatusLine", "WriteHeaders", "WriteBody"}
    => IF wr.before.writerState = RequiredState(wr.op)
       THEN /\ wr.err = "nil"
            /\ wr.w.writerState = wr.before.writerState + 1
            /\ Len(wr.w.sink) = Len(wr.before.sink) + 1
       ELSE /\ wr.err = ErrWrongOrder
            /\ wr.w = wr.before

C19_Witness ==
    /\ wr.n = 3
    /\ wr.op = "WriteBody"
    /\ wr.before.writerState = writerStateStatusLine
    /\ wr.err = ErrWrongOrder
    /\ Len(wr.w.sink) = 1

\* C20: chunked write order.  WriteChunkedBody and WriteChunkedBodyDone
\* called before the headers are written (the writer not started, or only
\* the status line written) return a state error and write nothing.
C20_ChunkedWriteOrderEnforced ==
    (/\ wr.op \in {"WriteChunkedBody", "WriteChunkedBodyDone"}
     /\ wr.before.writerState \in {writerStateNotStarted, writerStateStatusLine})
    => /\ wr.err # "nil"
       /\ wr.w.sink = wr.before.sink

\* the request line of a request of the pool, without its CRLF, and its tokens
LineOf(bytes) == Take(bytes, IndexCRLF(bytes))
Tokens(bytes) == Split(LineOf(bytes), SP)

\* C12: token count.  A request whose request line does not split into
\* exactly three tokens is never routed and never answered; once the whole
\* line has been read RequestFromReader has returned the bad-start-line
\* error and no Request, and the session is leaving its loop.
C12_BadTokenCountRejected ==
    \A c \in Conns : \A i \in DOMAIN reqs[c] :
        Len(Tokens(reqs[c][i])) # 3
        => /\ Len(dispatched[c]) < i
           /\ Len(out[c]) < i
           /\ nread[c] >= LenUpTo(reqs[c], i - 1) + Len(LineOf(reqs[c][i])) + 2
                => /\ rd[c].ret = ErrBadStartLine
                   /\ Outcome(rd[c]) = [err |-> ErrBadStartLine, request |-> newRequest]
                   /\ pc[c] \in {"closing", "closed"}
                   /\ cause[c] = "error"

C12_Witness ==
    /\ reqs[1] = <<ReqPlain, ReqFourParts>>
    /\ served[1] = 1
    /\ nread[1] >= Len(ReqPlain) + Len(LineOf(ReqFourParts)) + 2
    /\ pc[1] = "closed"
    /\ Len(dispatched[1]) = 1

\* C13: version marker.  Once a request line of three tokens whose third
\* token is not HTTP/1.1 has been read, RequestFromReader has returned the
\* bad-start-line error: the line is not accepted and the parser does not
\* fail in any other way.
C13_BadVersionRejected ==
    (/\ IndexCRLF(pinput) # -1
     /\ Len(Tokens(pinput)) = 3
     /\ Tokens(pinput)[3] # <<"H","T","T","P","/","1",".","1">>
     /\ pread >= Len(LineOf(pinput)) + 2)
    => pst.ret = ErrBadStartLine

KeepAliveValue == <<"k","e","e","p","-","a","l","i","v","e">>

\* the header segments a response wrote that carry connection: keep-alive
KeepAliveSegments(resp) ==
    {k \in DOMAIN resp.sink :
        /\ resp.sink[k].seg = "headers"
        /\ ConnectionKey \in DOMAIN resp.sink[k].h
        /\ ToLower(resp.sink[k].h[ConnectionKey]) = KeepAliveValue}

\* C11: keep-alive header.  The response to a request that carries
\* Connection: keep-alive, after which the server goes on reading on the
\* connection, includes the header connection: keep-alive.
C11_KeepAliveHeaderEchoed ==
    \A c \in Conns : \A j \in DOMAIN out[c] :
        ToLower(Get(dispatched[c][j].request.Headers, ConnectionKey)) = KeepAliveValue
        => KeepAliveSegments(out[c][j]) # {}

\* the last request routed: whether there is one, its path without the query
\* string, the handler calls it led to and the names of the functions called
Routed == rt.last # NoRouting
LastPath == Split(rt.last.target, "?")[1]
IsHandlerEvent(e) == e.ev = "handler"
HandlerEvents == SelectSeq(rt.last.trace, IsHandlerEvent)
HandlerNames == [i \in DOMAIN HandlerEvents |-> HandlerEvents[i].who]

\* the segments of a path, and whether a path fits a registered route: the
\* same path for a static route, the same number of segments and the same
\* literal segments for a pattern
Segments(path) == Split(TrimCut(path, "/"), "/")
IsPattern(route) == \E i \in DOMAIN route : route[i] = "{"
PatternFits(pattern, path) ==
    /\ Len(Segments(pattern)) = Len(Segments(path))
    /\ \A i \in DOMAIN Segments(pattern) :
         IsParamPart(Segments(pattern)[i]) \/ Segments(pattern)[i] = Segments(path)[i]
RouteFits(route, path) ==
    IF IsPattern(route) THEN PatternFits(route, path) ELSE route = path
FittingRoutes == {route \in DOMAIN rt.srv.handlers : RouteFits(route, LastPath)}

\* a complete response with this status code whose body is these bytes
ResponseIs(w, code, body) ==
    /\ Len(w.sink) = 3
    /\ w.sink[1].seg = "status" /\ w.sink[1].code = code
    /\ w.sink[3].seg = "body" /\ Take(w.sink[3].p, Len(body)) = body

\* C14: method not allowed.  A request whose path fits a registered route
\* for which methods were registered, its own method not among them, gets the
\* 405 response with the static HTML body and no handler function is called.
C14_MethodNotAllowedGets405 ==
    \A route \in FittingRoutes :
        (/\ Routed
         /\ DOMAIN rt.srv.handlers[route].MethodFuncs # {}
         /\ rt.last.method \notin DOMAIN rt.srv.handlers[route].MethodFuncs)
        => /\ ResponseIs(rt.last.w, 405, Body405)
           /\ HandlerEvents = << >>

C16_MethodsKeepTheirHandlers ==
    (Routed /\ LastPath = RouteWakanda)
    => /\ (rt.nreg >= 2 /\ rt.last.method = MethodGET)
            => (HandlerNames = <<"wakandaHandler">> /\ ResponseIs(rt.last.w, 200, HandlerBody))
       /\ (rt.nreg >= 3 /\ rt.last.method = MethodPOST)
            => (HandlerNames = <<"wakandaPOSTHandler">> /\ ResponseIs(rt.last.w, 200, BodyPOST))

C16_Witness ==
    /\ Routed
    /\ rt.nreg >= 3
    /\ rt.last.target = RouteWakanda
    /\ rt.last.method = MethodGET
    /\ HandlerNames = <<"wakandaHandler">>

\* C17: not found.  A request whose path fits no registered route leads to
\* one call, of the configured not-found handler and of nothing else: the
\* default one, whose response is the 404 with the static HTML body, or the
\* one installed with OverrideNotFoundHandler before Listen.
C17_NotFoundHandlerInvoked ==
    (Routed /\ FittingRoutes = {})
    => /\ Len(rt.last.trace) = 1
       /\ rt.last.w.sink[1].code # 405
       /\ IF rt.overridden
          THEN /\ HandlerNames = <<"customNotFound">>
               /\ ResponseIs(rt.last.w, 404, BodyCustom)
          ELSE /\ HandlerNames = <<"defaultNotFoundHandler">>
               /\ ResponseIs(rt.last.w, 404, Body404)
               /\ rt.last.w.sink[2].h[ContentTypeKey] = TextHtml

C17_Witness ==
    /\ Routed
    /\ rt.overridden
    /\ rt.nreg = Len(Registrations)
    /\ rt.last.target = <<"/","n","o","p","e">>
    /\ HandlerNames = <<"customNotFound">>

\* the events of each kind for a list of middlewares, and the order in which
\* a matched request must go through the middlewares and the handler
EventsOf(kind, names) == [i \in DOMAIN names |-> [ev |-> kind, who |-> names[i]]]
Backwards(names) == [i \in DOMAIN names |-> names[Len(names) + 1 - i]]
ExpectedOrder(globals, own, hf) ==
    EventsOf("before", globals) \o EventsOf("before", own) \o EventsOf("handler", <<hf>>)
    \o EventsOf("after", Backwards(own)) \o EventsOf("after", Backwards(globals))
TraceOrder == [i \in DOMAIN rt.last.trace |->
                 [ev |-> rt.last.trace[i].ev, who |-> rt.last.trace[i].who]]

IndexBlank(bytes) ==
    LET hits == {i \in 1..(Len(bytes) - 3) : SubSeq(bytes, i, i + 3) = CRLF \o CRLF}
    IN  IF hits = {} THEN -1
        ELSE (CHOOSE i \in hits : \A j \in hits : i <= j) - 1
FirstLine(bytes) == Take(bytes, IndexCRLF(bytes))
HeaderBlock(bytes) == SubSeq(bytes, IndexCRLF(bytes) + 1, IndexBlank(bytes) + 2)
BodySection(bytes) == Drop(bytes, IndexBlank(bytes) + 4)

\* the calls on the Writer so far are WriteStatusLine(200),
\* WriteHeaders(GetDefaultHeaders(L)), WriteBody(B)
IsRoundTrip(L, B) ==
    /\ Len(wr.calls) = 3
    /\ wr.calls[1].op = "WriteStatusLine" /\ wr.calls[1].arg = 200
    /\ wr.calls[2].op = "WriteHeaders" /\ wr.calls[2].arg = GetDefaultHeaders(L)
    /\ wr.calls[3].op = "WriteBody" /\ wr.calls[3].arg = B

RoundTripBodies == {<<>>, <<"A">>}

\* C21: response round trip.  On a fresh writer WriteStatusLine(200),
\* WriteHeaders(GetDefaultHeaders(L)) and WriteBody(B) with len(B) = L leave
\* on the wire a first line HTTP/1.1 200 OK, a header block with the line
\* content-length:L, and after the blank line exactly the bytes of B.
C21_ResponseRoundTrip ==
    \A B \in RoundTripBodies :
        IsRoundTrip(Len(B), B)
        => \A bytes \in SinkBytes(wr.w.sink) :
              /\ FirstLine(bytes) = <<"H","T","T","P","/","1",".","1",SP,"2","0","0",SP,"O","K">>
              /\ IndexBlank(bytes) # -1
              /\ Contains(HeaderBlock(bytes),
                          CRLF \o ContentLengthKey \o <<":">> \o Itoa(Len(B)) \o CRLF)
              /\ BodySection(bytes) = B

\* the round trip but for the bytes after the body: what does hold
C21_RoundTripUpToBody ==
    \A B \in RoundTripBodies :
        IsRoundTrip(Len(B), B)
        => \A bytes \in SinkBytes(wr.w.sink) :
              /\ FirstLine(bytes) = <<"H","T","T","P","/","1",".","1",SP,"2","0","0",SP,"O","K">>
              /\ IndexBlank(bytes) # -1
              /\ Contains(HeaderBlock(bytes),
                          CRLF \o ContentLengthKey \o <<":">> \o Itoa(Len(B)) \o CRLF)
              /\ Take(BodySection(bytes), Len(B)) = B

\* the header block a successful WriteHeaders call has just written
WroteHeaders == wr.op = "WriteHeaders" /\ wr.err = "nil"
WrittenBlock == wr.w.sink[Len(wr.w.sink)]
EndsWith(bytes, suffix) ==
    Len(bytes) >= Len(suffix) /\ Drop(bytes, Len(bytes) - Len(suffix)) = suffix
AnnouncesBody(h) ==
    \/ ContentLengthKey \in DOMAIN h
    \/ (TransferEncodingKey \in DOMAIN h /\ h[TransferEncodingKey] = ChunkedValue)

\* C22: end of the header block.  A WriteHeaders call called with an empty
\* set writes the default set; and the bytes it writes end with one blank
\* line, and no more than one, if and only if the headers written contain a
\* content-length or transfer-encoding: chunked.
C22_BlankLineIffBodyAnnounced ==
    WroteHeaders
    => /\ wr.calls[Len(wr.calls)].arg = NewHeaders => WrittenBlock.h = GetDefaultHeaders(0)
       /\ wr.calls[Len(wr.calls)].arg # NewHeaders => WrittenBlock.h = wr.calls[Len(wr.calls)].arg
       /\ \A bytes \in SegmentBytes(WrittenBlock) :
             /\ EndsWith(bytes, CRLF \o CRLF) <=> AnnouncesBody(WrittenBlock.h)
             /\ ~EndsWith(bytes, CRLF \o CRLF \o CRLF)

CommaSpace == <<",", SP>>

\* C23: Set on a present key.  After Set(key, new) on a container that holds
\* the key with the value old, Get returns old + ", " + new for the key in
\* every letter case, whatever old is, the empty string included.
C23_SetJoinsOnPresentKey ==
    (hd.op = "Set" /\ ToLower(hd.key) \in DOMAIN hd.before)
    => \A key \in HdrKeys :
          ToLower(key) = ToLower(hd.key)
          => Get(hd.h, key) = hd.before[ToLower(hd.key)] \o CommaSpace \o hd.value

\* the same for an old value that is not empty: what does hold
C23_SetJoinsNonEmpty ==
    (hd.op = "Set" /\ ToLower(hd.key) \in DOMAIN hd.before
     /\ hd.before[ToLower(hd.key)] # <<>>)
    => \A key \in HdrKeys :
          ToLower(key) = ToLower(hd.key)
          => Get(hd.h, key) = hd.before[ToLower(hd.key)] \o CommaSpace \o hd.value

\* the value of a line of SameNameLines, and the values joined by ", "
ValueOfLine(line) == IF line = LineXa THEN <<"a">> ELSE <<"b">>
RECURSIVE JoinValues(_)
JoinValues(calls) ==
    IF calls = <<>> THEN <<>>
    ELSE IF Len(calls) = 1 THEN ValueOfLine(calls[1].key)
    ELSE ValueOfLine(calls[1].key) \o CommaSpace \o JoinValues(Tail(calls))

\* C24: repeated header lines.  After k lines of one name, in any letter
\* case, parsed one after another into an empty container, the container has
\* one entry and its value is the k values joined by ", " in the order of
\* arrival, each value once.
C24_RepeatedLinesJoinedOnce ==
    (/\ hd.hist # <<>>
     /\ \A i \in DOMAIN hd.hist : hd.hist[i].op = "Parse" /\ hd.hist[i].key \in SameNameLines)
    => /\ DOMAIN hd.h = {<<"x">>}
       /\ hd.h[<<"x">>] = JoinValues(hd.hist)

\* C25: a refused header line.  A Parse call that returns an error reports
\* 0 bytes consumed and done = false and leaves the container as it was.
C25_ParseErrorConsumesNothing ==
    (hd.op = "Parse" /\ hd.res.err # "nil")
    => /\ hd.res.n = 0
       /\ hd.res.done = FALSE
       /\ hd.h = hd.before

\* C26: HasContentLength.  (0, true) for a container with transfer-encoding:
\* chunked and no content-length; (n, true) when content-length holds the
\* integer n; (0, false) when content-length holds no integer and
\* transfer-encoding is not chunked.
C26_HasContentLength ==
    hd.op = "HasContentLength"
    => LET cl == IF ContentLengthKey \in DOMAIN hd.before THEN hd.before[ContentLengthKey]
                 ELSE <<>>
           chunked == /\ TransferEncodingKey \in DOMAIN hd.before
                      /\ hd.before[TransferEncodingKey] = ChunkedValue
       IN  /\ (chunked /\ ContentLengthKey \notin DOMAIN hd.before)
                => (hd.res.n = 0 /\ hd.res.ok)
           /\ Atoi(cl).ok => (hd.res.n = Atoi(cl).val /\ hd.res.ok)
           /\ (~Atoi(cl).ok /\ ~chunked) => (hd.res.n = 0 /\ ~hd.res.ok)
           /\ hd.h = hd.before

C26_Witness ==
    /\ hd.op = "HasContentLength"
    /\ DOMAIN hd.before = {TransferEncodingKey}
    /\ hd.before[TransferEncodingKey] = ChunkedValue
    /\ hd.res.n = 0
    /\ hd.res.ok

\* where the head of a request ends (the length up to and with the blank
\* line), and the content-length a request of the inputs declares
HeadEnd(bytes) == IndexBlank(bytes) + 4
Declared(bytes) ==
    IF bytes \in {ReqBody, ReqBodyPending, ReqBodyLong} THEN 2 ELSE 0
LengthInputs == {ReqBody, ReqBodyPending, ReqBodyLong, ReqLength0, ReqLength0Extra}

\* C27: body of the declared length.  Once the blank line of a request with
\* content-length L has been read, the parse call that has the bytes after
\* it: when they are exactly L bytes (L = 0 and no byte included) the body is
\* those bytes and the parser is done in that call; when their number differs
\* from L the call fails with the body-length-mismatch error.
C27_BodyOfDeclaredLength ==
    (/\ pinput \in LengthInputs
     /\ ~plast.eof
     /\ pread >= HeadEnd(pinput))
    => IF pread - HeadEnd(pinput) = Declared(pinput)
       THEN /\ pst.ret = "ok"
            /\ pst.request.state = parserDone
            /\ pst.request.Body = SubSeq(pinput, HeadEnd(pinput) + 1, pread)
       ELSE pst.ret = ErrBodyMismatch

\* the same for a declared length that is not 0: what does hold
C27_BodyOfPositiveLength ==
    (/\ pinput \in LengthInputs
     /\ Declared(pinput) > 0
     /\ ~plast.eof
     /\ pread >= HeadEnd(pinput))
    => IF pread - HeadEnd(pinput) = Declared(pinput)
       THEN /\ pst.ret = "ok"
            /\ pst.request.state = parserDone
            /\ pst.request.Body = SubSeq(pinput, HeadEnd(pinput) + 1, pread)
       ELSE pst.ret = ErrBodyMismatch

\* the inputs whose headers hold no content-length
NoLengthInputs == {ReqPlain, ReqKeepAlive, ReqClose, ReqCloseMixed, ReqNoRoute, ReqPlainExtra,
                   ReqChunked}

\* C28: no content-length, no body.  Once the blank line of a request
\* without content-length has been read the parser is done, with an empty
\* body and without error, whatever the other headers and whatever bytes
\* came after the blank line.
C28_NoLengthNoBody ==
    (/\ pinput \in NoLengthInputs
     /\ pread >= HeadEnd(pinput))
    => /\ pst.ret = "ok"
       /\ pst.request.state = parserDone
       /\ pst.request.Body = <<>>

\* the units of a well-formed input: the lengths at which a line of the head
\* ends, and the length at which the request is complete (never, for an
\* input whose blank line or body does not come)
WellFormed == {LineGetRoot, ReqOpenHeaders, ReqHalfHeader, ReqBodyPending, ReqPlain,
               ReqKeepAlive, ReqBody}
LineEnds(bytes) == {i \in 2..Len(bytes) : bytes[i - 1] = CR /\ bytes[i] = LF}
CompleteAt(bytes) ==
    IF IndexBlank(bytes) = -1 THEN Len(bytes) + 1
    ELSE HeadEnd(bytes) + Declared(bytes)
LastEnd(bytes, n) ==
    LET ends == {0} \cup {e \in LineEnds(bytes) : e <= n}
    IN  CHOOSE e \in ends : \A f \in ends : f <= e

\* C29: incomplete unit.  A parse call whose bytes end before the next unit
\* is complete (the request line or a header line without its CRLF, fewer body
\* bytes than declared) returns no error and has consumed the complete units
\* only, no byte of the unit in progress; when the call completed no unit the
\* Request and its state are as before the call.
C29_IncompleteUnitLeftAlone ==
    (/\ pinput \in WellFormed
     /\ ~plast.eof
     /\ pread > plast.read
     /\ pread < CompleteAt(pinput))
    => /\ pst.ret = "loop"
       /\ pst.buffer = SubSeq(pinput, LastEnd(pinput, pread) + 1, pread)
       /\ LastEnd(pinput, pread) = LastEnd(pinput, plast.read)
            => pst.request = plast.st.request

\* the same for the request line and the header lines: what does hold
C29_IncompleteLineLeftAlone ==
    (/\ pinput \in WellFormed
     /\ ~plast.eof
     /\ pread > plast.read
     /\ pread < CompleteAt(pinput)
     /\ (IndexBlank(pinput) = -1 \/ pread < HeadEnd(pinput)))
    => /\ pst.ret = "loop"
       /\ pst.buffer = SubSeq(pinput, LastEnd(pinput, pread) + 1, pread)
       /\ LastEnd(pinput, pread) = LastEnd(pinput, plast.read)
            => pst.request = plast.st.request

StateRank(state) ==
    CASE state = parserInit -> 1
      [] state = parserHeaders -> 2
      [] state = parserBody -> 3
      [] state = parserDone -> 4

\* C30: forward only.  Over the reads and parse calls of a RequestFromReader
\* call the parser state never moves backward along initialised,
\* parsingHeaders, parsingBody, done; and the parse call made once the state
\* is done (after io.EOF) consumes no byte and changes nothing in the Request.
C30_StateMovesForward ==
    /\ StateRank(pst.request.state) >= StateRank(plast.st.request.state)
    /\ plast.eof
         => /\ pst.request = [plast.st.request EXCEPT !.state = parserDone]
            /\ pst.buffer = plast.st.buffer
            /\ pst.ret = "ok"

C30_Witness ==
    /\ plast.eof
    /\ plast.st.request.state = parserHeaders
    /\ pst.request.state = parserDone
    /\ pst.buffer # <<>>
    /\ pst.ret = "ok"

IsLowerCase(key) == \A i \in DOMAIN key : key[i] \notin Range(UpperChars)
EntryOf(h, key) == IF ToLower(key) \in DOMAIN h THEN h[ToLower(key)] ELSE <<>>

C32_SessionTerminates == <>(pc[1] = "closed")

\* the session reads into a full buffer: every Read from here on returns no
\* byte and parse finds no complete line
Spinning(c) == pc[c] = "read" /\ Len(rd[c].buffer) = bufferSize /\ rd[c].ret = "loop"

\* the safety half of C32: the session never reaches a state in which it
\* loops without reading new data
C32_NeverSpins == \A c \in Conns : ~Spinning(c)

\* the content-length value written in the header block of a response
WrittenLength(resp) == Atoi(Get(resp.sink[2].h, ContentLengthKey)).val

\* C33: body length.  In every response written by Respond the number of
\* bytes emitted after the blank line that ends the header block equals the
\* content-length value written in that response.
C33_BodyLengthMatches ==
    \A c \in Conns : \A i \in DOMAIN out[c] :
        Complete(out[c][i])
        => \A bytes \in SinkBytes(out[c][i].sink) :
               Len(BodySection(bytes)) = WrittenLength(out[c][i])

\* C34: no byte lost.  A request routed after bytes arrived is the request
\* the client sent in that place, and a RequestFromReader call that starts
\* with nothing buffered starts where the last served request ended: bytes
\* read after the end of a complete request are the start of the next one.
C34_NoByteLost ==
    \A c \in Conns :
        /\ \A i \in DOMAIN dispatched[c] :
             ~dispatched[c][i].atEOF
             => dispatched[c][i].request = RequestFromReader(readerStart, <<reqs[c][i]>>).request
        /\ (pc[c] = "read" /\ ~eof[c] /\ rd[c] = readerStart)
             => nread[c] = LenUpTo(reqs[c], served[c])

\* C35: deterministic matching.  On a fixed route table, routing the same
\* method and path again selects the same handler with the same path
\* variables: the handler runs on the same variables and writes the same
\* response as the time before.
C35_MatchDeterministic ==
    [][(/\ rt.phase = "serving"
        /\ rt.last # NoRouting
        /\ rt'.srv = rt.srv
        /\ rt'.last.method = rt.last.method
        /\ rt'.last.target = rt.last.target)
       => rt'.last = rt.last]_vars

\* C36: failed write.  A call of WriteStatusLine, WriteHeaders or WriteBody
\* during which the sink returned an error leaves the writer in the state it
\* had before the call.
C36_FailedWriteKeepsState ==
    (wr.op \in {"WriteStatusLine", "WriteHeaders", "WriteBody"} /\ wr.err = ErrSink)
    => wr.w.writerState = wr.before.writerState

\* the last-chunk line, and where a sink holds it
ZeroMarker == <<"0">> \o CRLF
MarkersIn(sink) == {i \in DOMAIN sink : sink[i].seg = "chunk-size" /\ sink[i].p = ZeroMarker}
SizeLinesIn(sink) == {i \in DOMAIN sink : sink[i].seg = "chunk-size"}

\* C37: zero-length chunk.  In the chunked response Streamer writes, no
\* chunk of length 0 is out before WriteChunkedBodyDone is called, whatever
\* the reader returned, an empty read included; when Streamer has returned
\* on a sink that took every write, the marker is out exactly once, as the
\* last chunk.
C37_ZeroChunkOnlyLast ==
    /\ sm.pc \in {"loop", "trailers"} => MarkersIn(sm.w.sink) = {}
    /\ (sm.pc = "done" /\ ~sm.failed)
         => /\ Cardinality(MarkersIn(sm.w.sink)) = 1
            /\ \A i \in MarkersIn(sm.w.sink) : \A j \in SizeLinesIn(sm.w.sink) : j <= i

\* the chunk payloads of a sink, one after the other
RECURSIVE ChunkPayloads(_)
ChunkPayloads(sink) ==
    IF sink = <<>> THEN <<>>
    ELSE (IF Head(sink).seg = "chunk" THEN Take(Head(sink).p, Len(Head(sink).p) - 2) ELSE <<>>)
         \o ChunkPayloads(Tail(sink))

\* the trailers a sink holds
TrailersIn(sink) ==
    LET at == {i \in DOMAIN sink : sink[i].seg = "trailers"}
    IN  IF at = {} THEN NewHeaders ELSE sink[CHOOSE i \in at : TRUE].h

\* C38: complete forwarding.  When Streamer has returned and the sink took
\* every write, the chunk payloads written make up the byte sequence the
\* reader delivered, the bytes that came with the final error included, and
\* the X-Content-Length trailer is the number of payload bytes written.
C38_StreamerForwardsAll ==
    (sm.pc = "done" /\ ~sm.failed)
    => /\ ChunkPayloads(sm.w.sink) = sm.delivered
       /\ Atoi(Get(TrailersIn(sm.w.sink), XContentLength)).val = Len(ChunkPayloads(sm.w.sink))

\* the body of the response was completed before the last call: by WriteBody,
\* or by WriteChunkedBodyDone after the headers were written
BodyCompleted ==
    \/ wr.before.writerState = writerStateBody
    \/ /\ wr.before.writerState = writerStateHeaders
       /\ \E i \in 1..(Len(wr.calls) - 1) :
            /\ wr.calls[i].op = "WriteChunkedBodyDone"
            /\ \E j \in 1..(i - 1) : wr.calls[j].op = "WriteHeaders"

\* C39: terminal writer.  A call made on a Writer after its response body
\* was completed, by WriteBody or by WriteChunkedBodyDone, writes no byte.
C39_WriterTerminal ==
    (wr.n >= 1 /\ BodyCompleted) => wr.w.sink = wr.before.sink

\* C40: accept loop.  While the server has not been closed the accept loop
\* is alive, whatever errors Accept returned and whenever it returned them,
\* so a connection that arrives later still gets its session.
C40_AcceptLoopSurvives ==
    ~listener.closed => listener.accepting

====
